---- MODULE Spec2Model ----
(***************************************************************************)
(* Model of the Clash Royale watcher: the FIFO deck model of main.py       *)
(* (DeckState), the polling loop of detection.py (GameWatcher.run with     *)
(* CardIdentifier and GameState) and the slot calibration of               *)
(* calibrate_slots.py (SlotCalibrator).                                    *)
(*                                                                         *)
(* The specifications share the variables:                                 *)
(*   SpecDeck      - DeckState driven by registrar_jogada calls;           *)
(*   SpecDeckCall  - single registrar_jogada calls with their argument;    *)
(*   SpecDeckApi   - DeckState as its callers use it: construction, the    *)
(*                   mao and fila properties, plays;                       *)
(*   Spec          - the polling loop of GameWatcher.run without keyboard  *)
(*                   interrupts: one step per slot, and two for a reviewed *)
(*                   slot (up to input(), and from the answer on);         *)
(*   SpecLive      - the polling loop, never halting by itself;            *)
(*   SpecInterrupt - the polling loop with KeyboardInterrupt;              *)
(*   SpecGuess     - direct calls of CardIdentifier.get_best_guess;        *)
(*   SpecClassify  - direct calls of the classification of a slot picture; *)
(*   SpecGameState - direct calls of GameState;                            *)
(*   SpecCalibrate - the slot calibration of calibrate_slots.py;           *)
(*   SpecLoad      - the template directories over several starts of the   *)
(*                   program: _load_templates and the pictures written by  *)
(*                   reviews.                                              *)
(*                                                                         *)
(* The elixir estimate of GameState (a float driven by wall-clock time) is *)
(* not part of the state; the call that updates it on a played card is     *)
(* recorded in last.jogada.  Scores are integers, in hundredths.  The      *)
(* directory of the learned images can always be created.                  *)
(***************************************************************************)
EXTENDS Integers, Sequences, FiniteSets, TLC

VARIABLES
  \* ---- main.py, DeckState ----
  mao,        \* DeckState._mao: hand slot index 0..3 -> card
  fila,       \* DeckState._fila: the FIFO queue, head first
  played,     \* history: the cards put on the queue tail, one per play
  drawn,      \* history: the cards put into the hand, one per play
  slot_hist,  \* history: the hand index given to each play
  deck_error, \* the exception raised by the last registrar_jogada call
  snapshot,   \* the list a caller last got from DeckState.mao or .fila
  \* ---- detection.py, GameWatcher / CardIdentifier / GameState ----
  pc,                   \* position of GameWatcher.run in its loop
  i,                    \* the slot index of the for loop
  frame,                \* the frame of the current cycle (its shape), or None
  cycles,               \* number of successful captures at cycle start
  consecutive_failures, \* run(): consecutive failed captures
  slots_status,         \* GameWatcher.slots_status
  slots_identity,       \* GameWatcher.slots_identity
  templates_cache,      \* CardIdentifier.templates_cache, in insertion order
  saved_files,          \* stems of the files written to cards-templates-user
  game_state,           \* TRUE when GameWatcher.game_state is a GameState
  slots_info,           \* GameState.slots_info
  deck_identificado,    \* GameState.deck_identificado
  cartas_cache,         \* GameState.cartas_cache, as <<name, card>> pairs
  last,                 \* the locals of the loop body last run, and what it did
  subflows,             \* history: slots that entered identification this cycle
  call,                 \* the last direct call of a pure function, with its result
  \* ---- the file system ----
  disk,                 \* the two template directories and their *.png files
  \* ---- calibrate_slots.py, SlotCalibrator ----
  slots,                \* SlotCalibrator.slots: the confirmed slots, in order
  pending_slot,         \* SlotCalibrator.pending_slot
  mouse_pos,            \* SlotCalibrator.mouse_pos
  calib_pc,             \* position of SlotCalibrator.run
  slots_config_txt,     \* the file slots_config.txt
  calib_event           \* history: the event or key handled last

deckVars == <<mao, fila, played, drawn, slot_hist, deck_error, snapshot>>

watchVars ==
  <<pc, i, frame, cycles, consecutive_failures, slots_status, slots_identity,
    templates_cache, saved_files, game_state, slots_info, deck_identificado,
    cartas_cache, last, subflows, call>>

diskVars == <<disk>>

calibVars ==
  <<slots, pending_slot, mouse_pos, calib_pc, slots_config_txt, calib_event>>

vars == <<deckVars, watchVars, diskVars, calibVars>>

None == "None"

\* ---------------------------------------------------------------------
\* Bounds of the model
\* ---------------------------------------------------------------------
MaxPlays == 6

MaxCycles == 3

MaxFiles == 2

MaxChanges == 1

\* ---------------------------------------------------------------------
\* main.py: DeckState
\* ---------------------------------------------------------------------
HandSlots == 0..3

\* The deck of main(): eight names, hand first.
deck_nomes ==
  <<"Witch", "Giant", "Fireball", "Electro Wizard",
    "Hog Rider", "Arrows", "Ice Golem", "Tornado">>

\* Indices a caller may pass, inside and outside the hand.
IndiceInputs == -1..4

\* DeckState.__init__: cartas[:4] is the hand, cartas[4:] the queue.
DeckStateInit(cartas) ==
  [mao  |-> [s \in HandSlots |-> cartas[s + 1]],
   fila |-> SubSeq(cartas, 5, Len(cartas))]

\* No list has been handed out.
NoSnapshot ==
  [src |-> "none", alias |-> FALSE, items |-> <<>>, taken |-> <<>>,
   changes |-> 0]

\* Faulty variant of DeckState: only a deck that is too short is refused.
DeckState_at_least_8(cartas) ==
  IF Len(cartas) < 8
    THEN [raised |-> "ValueError", mao |-> <<>>, fila |-> <<>>]
    ELSE [raised |-> "none",
          mao    |-> DeckStateInit(cartas).mao,
          fila   |-> DeckStateInit(cartas).fila]

\* DeckState(cartas) as called: ValueError and no object, or the new deck.
DeckState(cartas) ==
  IF Len(cartas) # 8
    THEN [raised |-> "ValueError", mao |-> <<>>, fila |-> <<>>]
    ELSE [raised |-> "none",
          mao    |-> DeckStateInit(cartas).mao,
          fila   |-> DeckStateInit(cartas).fila]

\* Faulty variant of mao_property: the list of the DeckState is handed out.
mao_property_live(m) ==
  [alias |-> TRUE, items |-> [k \in 1..4 |-> m[k - 1]]]

\* DeckState.mao: list(self._mao), a new list with the same elements. A
\* list in the hands of a caller is a record: alias tells whether it is the
\* very list of the DeckState (which is then what it shows), items are its
\* own elements when it is not.
mao_property(m) ==
  [alias |-> FALSE, items |-> [k \in 1..4 |-> m[k - 1]]]

\* DeckState.fila: list(self._fila), a new list with the same elements.
fila_property(f) ==
  [alias |-> FALSE, items |-> f]

\* Faulty variants of registrar_jogada: the head is read but not popped;
\* pop() instead of popleft(); appendleft() after the pop.
registrar_jogada_no_pop(m, f, indice_mao) ==
  [mao  |-> [m EXCEPT ![indice_mao] = Head(f)],
   fila |-> Append(f, m[indice_mao])]

registrar_jogada_lifo(m, f, indice_mao) ==
  [mao  |-> [m EXCEPT ![indice_mao] = m[indice_mao]],
   fila |-> f]

registrar_jogada_head_push(m, f, indice_mao) ==
  [mao  |-> [m EXCEPT ![indice_mao] = Head(f)],
   fila |-> <<m[indice_mao]>> \o Tail(f)]

\* Faulty variant of registrar_jogada: the entry left at the end of the
\* queue is moved to its front before the played card is appended.
registrar_jogada_rotates_rest(m, f, indice_mao) ==
  [mao  |-> [m EXCEPT ![indice_mao] = Head(f)],
   fila |-> <<f[Len(f)]>> \o SubSeq(f, 2, Len(f) - 1) \o <<m[indice_mao]>>]

\* Faulty variant of registrar_jogada: the drawn card is also what is put
\* at the queue tail, so the played card leaves the deck.
registrar_jogada_duplicates_head(m, f, indice_mao) ==
  [mao  |-> [m EXCEPT ![indice_mao] = Head(f)],
   fila |-> Append(Tail(f), Head(f))]

\* Faulty variant of registrar_jogada: the played card is put before the
\* last queue entry instead of behind it.
registrar_jogada_before_tail(m, f, indice_mao) ==
  [mao  |-> [m EXCEPT ![indice_mao] = Head(f)],
   fila |-> SubSeq(f, 2, Len(f) - 1) \o <<m[indice_mao]>> \o <<f[Len(f)]>>]

\* DeckState.registrar_jogada past its two guards: the played card goes to
\* the queue tail, then the queue head is popped into the played hand slot.
registrar_jogada(m, f, indice_mao) ==
  LET carta_jogada == m[indice_mao]
      appended     == Append(f, carta_jogada)
  IN  [mao  |-> [m EXCEPT ![indice_mao] = Head(appended)],
       fila |-> Tail(appended)]

\* Faulty variant of index_in_hand: only the upper end is tested.
index_in_hand_upper_only(indice_mao, m) ==
  indice_mao < Cardinality(DOMAIN m)

\* The first guard of registrar_jogada: 0 <= indice_mao < len(self._mao).
index_in_hand(indice_mao, m) ==
  0 <= indice_mao /\ indice_mao < Cardinality(DOMAIN m)

\* Where a Python list of n elements keeps the element of index k: a negative
\* index counts from the end; outside -n..n-1 the list raises IndexError.
list_index(k, n) ==
  IF k < 0 THEN k + n ELSE k

\* DeckState.registrar_jogada as called: IndexError, RuntimeError or the play.
RegistrarJogada(indice_mao) ==
  /\ Len(played) < MaxPlays
  /\ IF ~index_in_hand(indice_mao, mao)
       THEN /\ deck_error' = "IndexError"
            /\ UNCHANGED <<mao, fila, played, drawn, slot_hist, snapshot>>
            /\ UNCHANGED watchVars
            /\ UNCHANGED diskVars
            /\ UNCHANGED calibVars
       ELSE IF fila = <<>>
         THEN /\ deck_error' = "RuntimeError"
              /\ UNCHANGED <<mao, fila, played, drawn, slot_hist, snapshot>>
              /\ UNCHANGED watchVars
              /\ UNCHANGED diskVars
              /\ UNCHANGED calibVars
         ELSE LET r == registrar_jogada(mao, fila, indice_mao)
              IN  /\ mao' = r.mao
                  /\ fila' = r.fila
                  /\ played' = Append(played, mao[indice_mao])
                  /\ drawn' = Append(drawn, r.mao[indice_mao])
                  /\ slot_hist' = Append(slot_hist, indice_mao)
                  /\ deck_error' = "none"
                  /\ UNCHANGED snapshot
                  /\ UNCHANGED watchVars
                  /\ UNCHANGED diskVars
                  /\ UNCHANGED calibVars

\* ---------------------------------------------------------------------
\* detection.py: configuration
\* ---------------------------------------------------------------------
CARD_WIDTH == 61
CARD_HEIGHT == 90

\* SLOTS_CONFIG, by slot id.
SLOTS_CONFIG ==
  [id \in 0..7 |->
     [left |-> <<731, 796, 861, 926, 991, 1056, 1121, 1186>>[id + 1],
      top  |-> 58]]

NumSlots == Cardinality(DOMAIN SLOTS_CONFIG)

Slots == 0..(NumSlots - 1)

\* ScreenCapture.monitor_info, the capture region GameWatcher.monitor holds.
monitor == [top |-> 0, left |-> 0]

\* run(): thresholds. Scores are in hundredths (0.75 is 75).
SATURATION_THRESHOLD == 60
MAX_FAILURES == 5
CONFIRMATION_THRESHOLD == 75

\* is_background_red: squared tolerance (TOLERANCE = 25.0) and the palette
\* red_colors_hex as BGR triples (hex_to_bgr).
TOLERANCE == 25

red_colors_bgr ==
  { <<58, 70, 146>>, <<50, 60, 132>>, <<60, 76, 156>>,
    <<52, 60, 140>>, <<44, 52, 124>> }

\* ---------------------------------------------------------------------
\* Inputs of the model
\* ---------------------------------------------------------------------
\* Frame shapes the capture may return: the full screen, a screen so narrow
\* that only slots 0..3 fit, and one in which no slot fits.
FrameShapes ==
  { [w |-> 1920, h |-> 1080], [w |-> 1000, h |-> 1080], [w |-> 700, h |-> 1080] }

\* Average colours (BGR) of the centre of a slot picture: a palette colour,
\* colours at distance 24 and 25 of a palette colour, and a far colour.
AvgColors == { <<58, 70, 146>>, <<60, 76, 180>>, <<60, 76, 181>>, <<200, 120, 40>> }

\* Mean saturations of a slot picture, around the threshold.
SatValues == { 60, 61 }

SlotImages == [avg : AvgColors, sat : SatValues]

\* The slots whose picture changes during a run; the other slots show the
\* empty-slot background in every frame.
VaryingSlots == {0, 4}

BackgroundImage == [avg |-> <<58, 70, 146>>, sat |-> 60]

ImagesFor(slot_id) ==
  IF slot_id \in VaryingSlots THEN SlotImages ELSE {BackgroundImage}

\* Template libraries found on disk at start-up: none, or one image each of
\* two cards. A library is a sequence of [nome, templates] in insertion
\* order, templates being a sequence of image ids.
LibraryChoices ==
  { <<>>,
    << [nome |-> "Hog Rider", templates |-> <<1>>],
       [nome |-> "Giant",     templates |-> <<2>>] >> }

TemplateIds == {1, 2}

\* Outcome of cv2.matchTemplate on one reference: a score, or an exception.
ScoreValues == { -20, 0, 74, 75, 91 }

ScoreOutcomes == { <<"ok", v>> : v \in ScoreValues } \cup { <<"fail", 0>> }

\* One outcome per reference image: what a candidate picture scores.
ScoreVectors == [TemplateIds -> ScoreOutcomes]

\* What the operator answers at the prompt; EOF is the end of input.
EOF == "<EOF>"

UserResponses == { EOF, "", " ", " hog rider " }

\* Names the remote API knows, with their elixir cost.
ApiCards == { "Hog Rider", "Giant" }

ApiElixir(nome) == IF nome = "Hog Rider" THEN 4 ELSE 5

\* ---------------------------------------------------------------------
\* detection.py: pure helpers
\* ---------------------------------------------------------------------
\* ---- Python strings ----
\* A string is worked on as the sequence of its characters; the state keeps
\* the strings of the model as TLA+ strings, Chars and Str convert.
lower_letters ==
  <<"a", "b", "c", "d", "e", "f", "g", "h", "i", "j", "k", "l", "m",
    "n", "o", "p", "q", "r", "s", "t", "u", "v", "w", "x", "y", "z">>

upper_letters ==
  <<"A", "B", "C", "D", "E", "F", "G", "H", "I", "J", "K", "L", "M",
    "N", "O", "P", "Q", "R", "S", "T", "U", "V", "W", "X", "Y", "Z">>

digit_chars == <<"0", "1", "2", "3", "4", "5", "6", "7", "8", "9">>

\* The strings of the model: card names, operator answers, loaded names.
Strings ==
  { "", " ", "Giant", "giant", "Hog Rider", "hog rider", " hog rider ",
    "Hog_Rider", None }

Chars(str) ==
  CASE str = ""            -> <<>>
    [] str = None          -> <<"N", "o", "n", "e">>
    [] str = " "           -> <<" ">>
    [] str = "Giant"       -> <<"G", "i", "a", "n", "t">>
    [] str = "giant"       -> <<"g", "i", "a", "n", "t">>
    [] str = "Hog Rider"   -> <<"H", "o", "g", " ", "R", "i", "d", "e", "r">>
    [] str = "hog rider"   -> <<"h", "o", "g", " ", "r", "i", "d", "e", "r">>
    [] str = " hog rider " ->
         <<" ", "h", "o", "g", " ", "r", "i", "d", "e", "r", " ">>
    [] str = "Hog_Rider"   -> <<"H", "o", "g", "_", "R", "i", "d", "e", "r">>

Str(chars) == CHOOSE str \in Strings : Chars(str) = chars

\* Position of character c in sequence seq, 0 when absent.
IndexIn(seq, c) ==
  IF \E k \in 1..Len(seq) : seq[k] = c
    THEN CHOOSE k \in 1..Len(seq) : seq[k] = c
    ELSE 0

IsCased(c) == IndexIn(lower_letters, c) > 0 \/ IndexIn(upper_letters, c) > 0

ToUpper(c) ==
  IF IndexIn(lower_letters, c) > 0
    THEN upper_letters[IndexIn(lower_letters, c)] ELSE c

ToLower(c) ==
  IF IndexIn(upper_letters, c) > 0
    THEN lower_letters[IndexIn(upper_letters, c)] ELSE c

\* str.lower()
lower(s) == [k \in 1..Len(s) |-> ToLower(s[k])]

\* str.title(): a cased character is upper-cased after an uncased one (or
\* at the start) and lower-cased after a cased one.
title(s) ==
  [k \in 1..Len(s) |->
     IF k > 1 /\ IsCased(s[k - 1]) THEN ToLower(s[k]) ELSE ToUpper(s[k])]

\* str.strip(): leading and trailing blanks removed.
strip(s) ==
  LET kept == { k \in 1..Len(s) : s[k] # " " }
  IN  IF kept = {} THEN <<>>
      ELSE SubSeq(s, CHOOSE k \in kept : \A j \in kept : k <= j,
                     CHOOSE k \in kept : \A j \in kept : k >= j)

\* str.replace(old, new): every occurrence, left to right.
RECURSIVE replace(_, _, _)
replace(s, old, new) ==
  IF Len(s) < Len(old) THEN s
  ELSE IF SubSeq(s, 1, Len(old)) = old
    THEN new \o replace(SubSeq(s, Len(old) + 1, Len(s)), old, new)
    ELSE <<Head(s)>> \o replace(Tail(s), old, new)

\* str.isdigit()
isdigit(s) == s # <<>> /\ \A k \in 1..Len(s) : IndexIn(digit_chars, s[k]) > 0

\* str(n) for a natural number.
RECURSIVE str_of_int(_)
str_of_int(n) ==
  IF n < 10 THEN <<digit_chars[n + 1]>>
  ELSE str_of_int(n \div 10) \o <<digit_chars[(n % 10) + 1]>>

\* run(): user_input.strip() and final_name.strip().title(), on a string of
\* the model.
Strip(str) == Str(strip(Chars(str)))

Title(str) == Str(title(strip(Chars(str))))

\* str.lower() on a string of the model, as its characters.
Lower(str) == lower(Chars(str))

\* run(): the stem of the file a reviewed picture is written to,
\* f"{safe_name}_{timestamp}" with safe_name = final_name.replace(" ", "_").
filename(final_name, timestamp) ==
  LET safe_name == replace(Chars(final_name), <<" ">>, <<"_">>)
  IN  safe_name \o <<"_">> \o str_of_int(timestamp)

\* CardIdentifier._load_templates: the card name a file stem is filed under.
nome_carta_of(nome_arquivo) ==
  LET medium     == <<"_", "m", "e", "d", "i", "u", "m">>
      evolution  == <<"_", "e", "v", "o", "l", "u", "t", "i", "o", "n",
                      "M", "e", "d", "i", "u", "m">>
      nome_limpo == replace(replace(nome_arquivo, medium, <<>>), evolution, <<>>)
      under      == { k \in 1..Len(nome_limpo) : nome_limpo[k] = "_" }
      cut        == CHOOSE k \in under : \A j \in under : k >= j
      sem_sufixo ==
        IF under # {} /\ isdigit(SubSeq(nome_limpo, cut + 1, Len(nome_limpo)))
          THEN SubSeq(nome_limpo, 1, cut - 1)
          ELSE nome_limpo
  IN  title(replace(sem_sufixo, <<"-">>, <<" ">>))

\* GameWatcher.get_slot_roi: TRUE when a picture is returned, FALSE for None.
get_slot_roi(fr, slot_id) ==
  LET cfg == SLOTS_CONFIG[slot_id]
      x   == cfg.left - monitor.left
      y   == cfg.top - monitor.top
      w   == CARD_WIDTH
      h   == CARD_HEIGHT
  IN  ~(x < 0 \/ y < 0 \/ x + w > fr.w \/ y + h > fr.h)

\* Squared Euclidean distance of two BGR triples.
Dist2(a, b) ==
  (a[1] - b[1]) * (a[1] - b[1]) + (a[2] - b[2]) * (a[2] - b[2])
    + (a[3] - b[3]) * (a[3] - b[3])

\* Faulty variant of is_background_red: a colour at the tolerance counts.
is_background_red_inclusive(slot_img) ==
  \E ref_color \in red_colors_bgr :
    Dist2(slot_img.avg, ref_color) <= TOLERANCE * TOLERANCE

\* GameWatcher.is_background_red: some palette colour is nearer than TOLERANCE.
is_background_red(slot_img) ==
  \E ref_color \in red_colors_bgr :
    Dist2(slot_img.avg, ref_color) < TOLERANCE * TOLERANCE

\* Faulty variant of classify: a dull picture that is not background-red
\* leaves the state undecided.
classify_undecided_when_dull(is_red_bg, sat) ==
  IF is_red_bg THEN "EMPTY"
  ELSE IF sat > SATURATION_THRESHOLD THEN "FULL"
  ELSE "UNKNOWN"

\* Faulty variant of classify: saturation takes priority over redness.
classify_saturation_first(is_red_bg, sat) ==
  IF sat > SATURATION_THRESHOLD THEN "FULL" ELSE "EMPTY"

\* run(): the state of a slot from its two signals.
classify(is_red_bg, sat) ==
  LET is_saturated == sat > SATURATION_THRESHOLD
  IN  IF is_red_bg THEN "EMPTY"
      ELSE IF is_saturated THEN "FULL"
      ELSE "EMPTY"

\* Faulty variant of IsNewCard: an UNKNOWN slot counts as EMPTY.
IsNewCard_from_unknown(previous_state, current_state) ==
  previous_state # "FULL" /\ current_state = "FULL"

\* Faulty variant of IsNewCard: only hand slots are forwarded.
IsNewCard_hand_only(previous_state, current_state) ==
  previous_state = "EMPTY" /\ current_state = "FULL" /\ i < 4

\* run(): the two transitions.
IsNewCard(previous_state, current_state) ==
  previous_state = "EMPTY" /\ current_state = "FULL"

IsCardPlayed(previous_state, current_state) ==
  previous_state = "FULL" /\ current_state = "EMPTY"

\* The references of a library in iteration order, as <<nome, image id>>.
RECURSIVE References(_)
References(cache) ==
  IF cache = <<>> THEN <<>>
  ELSE [k \in 1..Len(Head(cache).templates) |->
          <<Head(cache).nome, Head(cache).templates[k]>>]
       \o References(Tail(cache))

\* Faulty variant of Scan: a reference as good as the best replaces it.
RECURSIVE Scan_last_wins(_, _, _)
Scan_last_wins(refs, sc, best) ==
  IF refs = <<>> THEN best
  ELSE LET nome_carta == Head(refs)[1]
           out        == sc[Head(refs)[2]]
           max_val    == out[2]
       IN  IF out[1] = "ok" /\ max_val >= best.score /\ max_val > 0
             THEN Scan_last_wins(Tail(refs), sc,
                                 [match |-> nome_carta, score |-> max_val])
             ELSE Scan_last_wins(Tail(refs), sc, best)

\* Faulty variant of Scan: a failed comparison ends the scan.
RECURSIVE Scan_abort_on_failure(_, _, _)
Scan_abort_on_failure(refs, sc, best) ==
  IF refs = <<>> THEN best
  ELSE LET nome_carta == Head(refs)[1]
           out        == sc[Head(refs)[2]]
           max_val    == out[2]
       IN  IF out[1] # "ok" THEN best
           ELSE IF max_val > best.score
             THEN Scan_abort_on_failure(Tail(refs), sc,
                                        [match |-> nome_carta, score |-> max_val])
             ELSE Scan_abort_on_failure(Tail(refs), sc, best)

\* Faulty variant of Scan: a reference as good as the best so far is
\* selected, one that scores 0 included.
RECURSIVE Scan_not_strict(_, _, _)
Scan_not_strict(refs, sc, best) ==
  IF refs = <<>> THEN best
  ELSE LET nome_carta == Head(refs)[1]
           out        == sc[Head(refs)[2]]
           max_val    == out[2]
       IN  IF out[1] = "ok" /\ max_val >= best.score
             THEN Scan_not_strict(Tail(refs), sc,
                                  [match |-> nome_carta, score |-> max_val])
             ELSE Scan_not_strict(Tail(refs), sc, best)

\* The scan of get_best_guess over the references left, from (best_match,
\* best_score); a failed comparison is skipped.
RECURSIVE Scan(_, _, _)
Scan(refs, sc, best) ==
  IF refs = <<>> THEN best
  ELSE LET nome_carta == Head(refs)[1]
           out        == sc[Head(refs)[2]]
           max_val    == out[2]
       IN  IF out[1] = "ok" /\ max_val > best.score
             THEN Scan(Tail(refs), sc, [match |-> nome_carta, score |-> max_val])
             ELSE Scan(Tail(refs), sc, best)

\* The result of a get_best_guess call that returns.
Returned(best_match, best_score) ==
  [match |-> best_match, score |-> best_score, raised |-> FALSE]

\* The result of a get_best_guess call that raises (cv2.error).
Raised == [match |-> None, score |-> 0, raised |-> TRUE]

\* Faulty variant of get_best_guess: no early return on an empty library.
get_best_guess_no_empty_check(cache, target_img, sc) ==
  IF target_img = None THEN Raised
  ELSE LET best == Scan(References(cache), sc, [match |-> None, score |-> 0])
       IN  Returned(best.match, best.score)

\* CardIdentifier.get_best_guess on target_img (a picture, or None), sc being
\* the outcome of the comparison of the picture with each reference. On a
\* non-empty library cv2.cvtColor(None, ...) raises before the scan.
get_best_guess(cache, target_img, sc) ==
  IF cache = <<>> THEN Returned(None, 0)
  ELSE IF target_img = None THEN Raised
  ELSE LET best == Scan(References(cache), sc, [match |-> None, score |-> 0])
       IN  Returned(best.match, best.score)

\* GameState.obter_carta_da_api: the card found (its API name), or None.
\* cached is cartas_cache, a set of <<identified name, card>> pairs.
obter_carta_da_api(cached, nome_identificado, api_ok) ==
  LET nome_normalizado == Strip(nome_identificado)
  IN  IF \E e \in cached : e[1] = nome_identificado
        THEN (CHOOSE e \in cached : e[1] = nome_identificado)[2]
      ELSE IF api_ok /\ \E c \in ApiCards : Lower(c) = Lower(nome_normalizado)
        THEN CHOOSE c \in ApiCards : Lower(c) = Lower(nome_normalizado)
        ELSE None

\* Faulty variant of registrar_carta_identificada: a card the API does not
\* return is not recorded at all.
registrar_carta_identificada_found_only(slot_id, nome_carta, api_ok) ==
  LET carta == obter_carta_da_api(cartas_cache, nome_carta, api_ok)
  IN  IF carta # None
        THEN [info  |-> [slots_info EXCEPT ![slot_id] =
                           [nome_carta |-> nome_carta,
                            elixir     |-> ApiElixir(carta),
                            carta_obj  |-> carta]],
              deck  |-> [deck_identificado EXCEPT ![slot_id] = carta],
              cache |-> cartas_cache \cup {<<nome_carta, carta>>}]
        ELSE [info  |-> slots_info,
              deck  |-> deck_identificado,
              cache |-> cartas_cache]

\* GameState.registrar_carta_identificada: the new GameState fields.
registrar_carta_identificada(slot_id, nome_carta, api_ok) ==
  LET carta == obter_carta_da_api(cartas_cache, nome_carta, api_ok)
  IN  IF carta # None
        THEN [info  |-> [slots_info EXCEPT ![slot_id] =
                           [nome_carta |-> nome_carta,
                            elixir     |-> ApiElixir(carta),
                            carta_obj  |-> carta]],
              deck  |-> [deck_identificado EXCEPT ![slot_id] = carta],
              cache |-> cartas_cache \cup {<<nome_carta, carta>>}]
        ELSE [info  |-> [slots_info EXCEPT ![slot_id].nome_carta = nome_carta],
              deck  |-> deck_identificado,
              cache |-> cartas_cache]

\* GameState.registrar_carta_jogada: the elixir cost subtracted for the card
\* played from slot_id, 0 when the slot has no card object (nothing is
\* subtracted then).
registrar_carta_jogada(info, slot_id) ==
  IF info[slot_id].carta_obj # None
    THEN ApiElixir(info[slot_id].carta_obj)
    ELSE 0

\* What get_best_guess may give for target_img, over the outcomes of the
\* comparisons with the references.
Guesses(cache, target_img) ==
  { get_best_guess(cache, target_img, sc) : sc \in ScoreVectors }

\* Faulty variant of is_truthy: None counts as a name.
is_truthy_none_too(name) == name # ""

\* Python truth of an Optional[str]: neither None nor the empty string.
is_truthy(name) == name # None /\ name # ""

\* Faulty variant of resolve_name: a guess is never overridden.
resolve_name_keep_guess(best_guess, response) ==
  LET user_input == IF response = EOF THEN "" ELSE Strip(response)
  IN  IF best_guess # None THEN best_guess
      ELSE IF is_truthy(user_input) THEN Title(user_input)
      ELSE best_guess

\* run(): the name a review ends with. response is what input() returns, or
\* EOF; the answer is stripped, and a non-empty answer replaces the guess,
\* title-cased.
resolve_name(best_guess, response) ==
  LET user_input == IF response = EOF THEN "" ELSE Strip(response)
  IN  IF is_truthy(user_input) THEN Title(user_input) ELSE best_guess

\* run(): int(time.time() * 1000) at a write; the clock has advanced since
\* every earlier write (a settle delay lies between two writes).
timestamp(files) == Len(files) + 1

\* ---- the template directories ----
\* A directory is whether it exists and its *.png files in glob order. A
\* file is its stem, whether cv2.imread decodes it, the picture it
\* holds, and (history) the name run() wrote it under, None for a file that
\* came with the program.
stem_hog_rider_medium ==
  <<"h", "o", "g", "-", "r", "i", "d", "e", "r", "_", "m", "e", "d", "i", "u", "m">>

stem_giant_medium == <<"g", "i", "a", "n", "t", "_", "m", "e", "d", "i", "u", "m">>

stem_giant_evolutionMedium ==
  <<"g", "i", "a", "n", "t", "_", "e", "v", "o", "l", "u", "t", "i", "o", "n",
    "M", "e", "d", "i", "u", "m">>

\* The files cards/download.py puts in cards-templates: base art as
\* <name>_medium.png, evolution art as <name>_evolutionMedium.png.
DownloadedFiles ==
  { [stem |-> stem_hog_rider_medium,      img |-> 1, nome |-> None],
    [stem |-> stem_giant_medium,          img |-> 2, nome |-> None],
    [stem |-> stem_giant_evolutionMedium, img |-> 3, nome |-> None] }

\* The file with the decoding outcome cv2.imread has on it.
OnDisk(file, ok) ==
  [stem |-> file.stem, ok |-> ok, img |-> file.img, nome |-> file.nome]

\* A directory that does not exist, and one holding files.
NoDir == [exists |-> FALSE, files |-> <<>>]

Dir(files) == [exists |-> TRUE, files |-> files]

\* Faulty variant of add_template: the image replaces the list of the name.
add_template_replace(cache, nome_carta, template_img) ==
  IF \E k \in 1..Len(cache) : cache[k].nome = nome_carta
    THEN [k \in 1..Len(cache) |->
            IF cache[k].nome = nome_carta
              THEN [cache[k] EXCEPT !.templates = <<template_img>>]
              ELSE cache[k]]
    ELSE Append(cache, [nome |-> nome_carta, templates |-> <<template_img>>])

\* _load_templates: templates_cache[nome_carta].append(template_img), the
\* name being entered with an empty list first when it is new.
add_template(cache, nome_carta, template_img) ==
  IF \E k \in 1..Len(cache) : cache[k].nome = nome_carta
    THEN [k \in 1..Len(cache) |->
            IF cache[k].nome = nome_carta
              THEN [cache[k] EXCEPT !.templates = Append(@, template_img)]
              ELSE cache[k]]
    ELSE Append(cache, [nome |-> nome_carta, templates |-> <<template_img>>])

\* Faulty variant of load_files: the first file that does not decode ends
\* the loading of the directory.
RECURSIVE load_files_stop_at_failure(_, _)
load_files_stop_at_failure(cache, png_files) ==
  IF png_files = <<>> THEN cache
  ELSE LET template_path == Head(png_files)
       IN  IF template_path.ok
             THEN load_files_stop_at_failure(
                    add_template(cache, Str(nome_carta_of(template_path.stem)),
                                 template_path.img),
                    Tail(png_files))
             ELSE cache

\* _load_templates: the loop over the files of one directory. A file that
\* cv2.imread does not decode (None, or an exception) adds nothing.
RECURSIVE load_files(_, _)
load_files(cache, png_files) ==
  IF png_files = <<>> THEN cache
  ELSE LET template_path == Head(png_files)
       IN  IF template_path.ok
             THEN load_files(
                    add_template(cache, Str(nome_carta_of(template_path.stem)),
                                 template_path.img),
                    Tail(png_files))
             ELSE load_files(cache, Tail(png_files))

\* CardIdentifier.__init__ and _load_templates: from the empty cache, the
\* directories [TEMPLATES_DIR, USER_TEMPLATES_DIR] in this order, a
\* directory that does not exist being passed over.
load_templates(d) ==
  LET after_base ==
        IF d.base.exists THEN load_files(<<>>, d.base.files) ELSE <<>>
  IN  IF d.user.exists THEN load_files(after_base, d.user.files)
      ELSE after_base

\* run(): USER_TEMPLATES_DIR.mkdir(parents=True, exist_ok=True), then
\* cv2.imwrite of the reviewed picture to <safe_name>_<timestamp>.png; a
\* failed write leaves the directory as it is. files are the stems written
\* so far.
write_learned(d, files, final_name, write_ok) ==
  LET written == [stem |-> filename(final_name, timestamp(files)),
                  ok   |-> TRUE,
                  img  |-> 10 + timestamp(files),
                  nome |-> final_name]
  IN  [d EXCEPT !.user = IF write_ok THEN Dir(Append(d.user.files, written))
                         ELSE Dir(d.user.files)]

\* Neither directory exists.
NoDisk == [base |-> NoDir, user |-> NoDir]

\* The directories the watcher is started on: nothing, or the base art of
\* two cards.
StartDisks ==
  { NoDisk,
    [base |-> Dir(<< [stem |-> stem_hog_rider_medium, ok |-> TRUE, img |-> 1,
                      nome |-> None],
                     [stem |-> stem_giant_medium, ok |-> TRUE, img |-> 2,
                      nome |-> None] >>),
     user |-> NoDir] }


\* ---------------------------------------------------------------------
\* detection.py: GameWatcher.run
\* ---------------------------------------------------------------------
NoFrame == [w |-> 0, h |-> 0]

\* The locals of the loop body for slot i and what the body did, before
\* anything is known.
NoLast ==
  [slot |-> -1, kind |-> "none", prev |-> "UNKNOWN", cur |-> "UNKNOWN",
   is_red |-> FALSE, sat |-> 0, event |-> "none", recapture |-> "n/a",
   guessed |-> FALSE, guess |-> None, score |-> 0, prompted |-> FALSE,
   response |-> None, saved |-> FALSE, accepted |-> None,
   registered |-> None, jogada |-> FALSE, error |-> "none",
   target |-> "n/a", shown |-> "n/a", written |-> "n/a", reported |-> "n/a"]

\* No call of the pure functions made yet.
NoCall == [fn |-> "none", target |-> None, sc |-> <<>>, result |-> Raised]

\* The classification of slot i in the current frame and what it is
\* compared with.
Classified(img) ==
  [NoLast EXCEPT !.slot = i, !.kind = "step",
                 !.prev = slots_status[i],
                 !.cur = classify(is_background_red(img), img.sat),
                 !.is_red = is_background_red(img), !.sat = img.sat]

\* The two pictures of a slot in a step: the one cut from the frame of the
\* cycle, and the one cut from the frame captured after the settle delay.
EdgeSample == "slot_img"

FreshSample == "slot_img_updated"

\* Faulty variant of candidate: the picture of the frame of the cycle.
candidate_from_edge_frame(slot_img, slot_img_updated) == slot_img

\* run(): the picture given to get_best_guess, cv2.imshow and cv2.imwrite.
candidate(slot_img, slot_img_updated) == slot_img_updated

\* Faulty variant of next_slot: every other slot is visited.
next_slot_by_two(slot_id) == slot_id + 2

\* run(): for i in range(len(SLOTS_CONFIG)), the slot after slot_id.
next_slot(slot_id) == slot_id + 1

\* Faulty variant of ceiling_reached: one failure more is tolerated.
ceiling_reached_strict(failures) == failures > MAX_FAILURES

\* run(): the test that ends the loop after a failed capture.
ceiling_reached(failures) == failures >= MAX_FAILURES

\* run(): capture_screen() at the start of a cycle returned None.
CaptureFail ==
  /\ pc = "capture"
  /\ consecutive_failures' = consecutive_failures + 1
  /\ pc' = IF ceiling_reached(consecutive_failures + 1)
             THEN "aborted" ELSE "capture"
  /\ frame' = NoFrame
  /\ UNCHANGED <<i, cycles, slots_status, slots_identity, templates_cache,
                 saved_files, game_state, slots_info, deck_identificado,
                 cartas_cache, last, subflows, call>>
  /\ UNCHANGED deckVars
  /\ UNCHANGED diskVars
  /\ UNCHANGED calibVars

\* run(): capture_screen() at the start of a cycle returned a frame.
CaptureOk(shape) ==
  /\ pc = "capture"
  /\ cycles < MaxCycles
  /\ cycles' = cycles + 1
  /\ consecutive_failures' = 0
  /\ frame' = shape
  /\ i' = 0
  /\ subflows' = 0
  /\ pc' = "slots"
  /\ UNCHANGED <<slots_status, slots_identity, templates_cache, saved_files,
                 game_state, slots_info, deck_identificado, cartas_cache,
                 last, call>>
  /\ UNCHANGED deckVars
  /\ UNCHANGED diskVars
  /\ UNCHANGED calibVars

\* run(): get_slot_roi returned None, the slot is skipped (continue).
SlotSkipped ==
  /\ pc = "slots"
  /\ i < NumSlots
  /\ ~get_slot_roi(frame, i)
  /\ i' = next_slot(i)
  /\ last' = [NoLast EXCEPT !.slot = i, !.kind = "skipped"]
  /\ UNCHANGED <<pc, frame, cycles, consecutive_failures, slots_status,
                 slots_identity, templates_cache, saved_files, game_state,
                 slots_info, deck_identificado, cartas_cache, subflows, call>>
  /\ UNCHANGED deckVars
  /\ UNCHANGED diskVars
  /\ UNCHANGED calibVars

\* run(): slot i classified, neither transition applies.
StepNoEdge(img) ==
  /\ pc = "slots"
  /\ i < NumSlots
  /\ get_slot_roi(frame, i)
  /\ LET c == Classified(img)
     IN  /\ ~IsNewCard(c.prev, c.cur)
         /\ ~IsCardPlayed(c.prev, c.cur)
         /\ slots_status' = [slots_status EXCEPT ![i] = c.cur]
         /\ last' = c
  /\ i' = next_slot(i)
  /\ UNCHANGED <<pc, frame, cycles, consecutive_failures, slots_identity,
                 templates_cache, saved_files, game_state, slots_info,
                 deck_identificado, cartas_cache, subflows, call>>
  /\ UNCHANGED deckVars
  /\ UNCHANGED diskVars
  /\ UNCHANGED calibVars

\* Faulty variant of StepCardPlayed: the identity of the slot is forgotten
\* once its card was reported as played.
StepCardPlayed_forgets_identity(img) ==
  /\ pc = "slots"
  /\ i < NumSlots
  /\ get_slot_roi(frame, i)
  /\ LET c == Classified(img)
     IN  /\ ~IsNewCard(c.prev, c.cur)
         /\ IsCardPlayed(c.prev, c.cur)
         /\ slots_status' = [slots_status EXCEPT ![i] = c.cur]
         /\ last' = [c EXCEPT !.event = "played",
                              !.jogada = (slots_identity[i] # None /\ game_state),
                              !.reported = IF is_truthy(slots_identity[i])
                                             THEN slots_identity[i] ELSE None]
  /\ i' = next_slot(i)
  /\ slots_identity' = [slots_identity EXCEPT ![i] = None]
  /\ UNCHANGED <<pc, frame, cycles, consecutive_failures,
                 templates_cache, saved_files, game_state, slots_info,
                 deck_identificado, cartas_cache, subflows, call>>
  /\ UNCHANGED deckVars
  /\ UNCHANGED diskVars
  /\ UNCHANGED calibVars

\* run(): FULL -> EMPTY, the card of slot i was played.
StepCardPlayed(img) ==
  /\ pc = "slots"
  /\ i < NumSlots
  /\ get_slot_roi(frame, i)
  /\ LET c == Classified(img)
     IN  /\ ~IsNewCard(c.prev, c.cur)
         /\ IsCardPlayed(c.prev, c.cur)
         /\ slots_status' = [slots_status EXCEPT ![i] = c.cur]
         /\ last' = [c EXCEPT !.event = "played",
                              !.jogada = (slots_identity[i] # None /\ game_state),
                              !.reported = IF is_truthy(slots_identity[i])
                                             THEN slots_identity[i] ELSE None]
  /\ i' = next_slot(i)
  /\ UNCHANGED <<pc, frame, cycles, consecutive_failures, slots_identity,
                 templates_cache, saved_files, game_state, slots_info,
                 deck_identificado, cartas_cache, subflows, call>>
  /\ UNCHANGED deckVars
  /\ UNCHANGED diskVars
  /\ UNCHANGED calibVars

\* Faulty variant of StepNewCardNoFrame: the state of the slot is stored only
\* when the capture after the settle delay returned a frame.
StepNewCardNoFrame_state_kept(img) ==
  /\ pc = "slots"
  /\ i < NumSlots
  /\ get_slot_roi(frame, i)
  /\ LET c == Classified(img)
     IN  /\ IsNewCard(c.prev, c.cur)
         /\ slots_status' = slots_status
         /\ last' = [c EXCEPT !.event = "new_card", !.recapture = "none"]
  /\ i' = next_slot(i)
  /\ subflows' = subflows + 1
  /\ UNCHANGED <<pc, frame, cycles, consecutive_failures, slots_identity,
                 templates_cache, saved_files, game_state, slots_info,
                 deck_identificado, cartas_cache, call>>
  /\ UNCHANGED deckVars
  /\ UNCHANGED diskVars
  /\ UNCHANGED calibVars

\* run(): EMPTY -> FULL, and the capture after the settle delay returned None.
StepNewCardNoFrame(img) ==
  /\ pc = "slots"
  /\ i < NumSlots
  /\ get_slot_roi(frame, i)
  /\ LET c == Classified(img)
     IN  /\ IsNewCard(c.prev, c.cur)
         /\ slots_status' = [slots_status EXCEPT ![i] = c.cur]
         /\ last' = [c EXCEPT !.event = "new_card", !.recapture = "none"]
  /\ i' = next_slot(i)
  /\ subflows' = subflows + 1
  /\ UNCHANGED <<pc, frame, cycles, consecutive_failures, slots_identity,
                 templates_cache, saved_files, game_state, slots_info,
                 deck_identificado, cartas_cache, call>>
  /\ UNCHANGED deckVars
  /\ UNCHANGED diskVars
  /\ UNCHANGED calibVars

\* run(): EMPTY -> FULL, and slot i does not fit the frame captured after the
\* settle delay: slot_img_updated is None. With references loaded
\* get_best_guess raises in cv2.cvtColor; with none it returns (None, 0.0)
\* and cv2.imshow raises in the review branch. Nothing catches either.
StepNewCardCrash(img) ==
  /\ pc = "slots"
  /\ i < NumSlots
  /\ get_slot_roi(frame, i)
  /\ IsNewCard(Classified(img).prev, Classified(img).cur)
  /\ { shape \in FrameShapes : ~get_slot_roi(shape, i) } # {}
  /\ \E g \in Guesses(templates_cache, candidate(EdgeSample, None)) :
       last' = [Classified(img) EXCEPT
                  !.event = "new_card", !.recapture = "oob",
                  !.guessed = ~g.raised, !.guess = g.match,
                  !.score = g.score,
                  !.error = IF g.raised THEN "get_best_guess" ELSE "imshow",
                  !.target = candidate(EdgeSample, None),
                  !.shown = IF g.raised THEN "n/a"
                            ELSE candidate(EdgeSample, None)]
  /\ pc' = "crashed"
  /\ subflows' = subflows + 1
  /\ UNCHANGED <<i, frame, cycles, consecutive_failures, slots_status,
                 slots_identity, templates_cache, saved_files, game_state,
                 slots_info, deck_identificado, cartas_cache, call>>
  /\ UNCHANGED deckVars
  /\ UNCHANGED diskVars
  /\ UNCHANGED calibVars

\* run(): EMPTY -> FULL, the best guess passes the confidence gate.
StepNewCardAuto(img) ==
  /\ pc = "slots"
  /\ i < NumSlots
  /\ get_slot_roi(frame, i)
  /\ IsNewCard(Classified(img).prev, Classified(img).cur)
  /\ { shape \in FrameShapes : get_slot_roi(shape, i) } # {}
  /\ \E g \in Guesses(templates_cache, candidate(EdgeSample, FreshSample)),
        api_ok \in BOOLEAN :
       LET c == Classified(img)
           r == registrar_carta_identificada(i, g.match, api_ok)
       IN  /\ ~g.raised
           /\ g.score >= CONFIRMATION_THRESHOLD /\ is_truthy(g.match)
           /\ slots_identity' = [slots_identity EXCEPT ![i] = g.match]
           /\ IF game_state
                THEN /\ slots_info' = r.info
                     /\ deck_identificado' = r.deck
                     /\ cartas_cache' = r.cache
                ELSE UNCHANGED <<slots_info, deck_identificado, cartas_cache>>
           /\ slots_status' = [slots_status EXCEPT ![i] = c.cur]
           /\ last' = [c EXCEPT !.event = "new_card", !.recapture = "ok",
                                !.guessed = TRUE, !.guess = g.match,
                                !.score = g.score, !.accepted = g.match,
                                !.registered =
                                   IF game_state THEN g.match ELSE None,
                                !.target = candidate(EdgeSample, FreshSample)]
  /\ i' = next_slot(i)
  /\ subflows' = subflows + 1
  /\ UNCHANGED <<pc, frame, cycles, consecutive_failures, templates_cache,
                 saved_files, game_state, call>>
  /\ UNCHANGED deckVars
  /\ UNCHANGED diskVars
  /\ UNCHANGED calibVars

\* run(): EMPTY -> FULL, the best guess fails the confidence gate: the
\* picture and the guess are shown and the loop blocks in input().
ReviewPrompt(img) ==
  /\ pc = "slots"
  /\ i < NumSlots
  /\ get_slot_roi(frame, i)
  /\ IsNewCard(Classified(img).prev, Classified(img).cur)
  /\ { shape \in FrameShapes : get_slot_roi(shape, i) } # {}
  /\ \E g \in Guesses(templates_cache, candidate(EdgeSample, FreshSample)) :
       LET c == Classified(img)
       IN  /\ ~g.raised
           /\ ~(g.score >= CONFIRMATION_THRESHOLD /\ is_truthy(g.match))
           /\ last' = [c EXCEPT !.event = "new_card", !.recapture = "ok",
                                !.guessed = TRUE, !.guess = g.match,
                                !.score = g.score, !.prompted = TRUE,
                                !.target = candidate(EdgeSample, FreshSample),
                                !.shown = candidate(EdgeSample, FreshSample)]
  /\ pc' = "review"
  /\ subflows' = subflows + 1
  /\ UNCHANGED <<i, frame, cycles, consecutive_failures, slots_status,
                 slots_identity, templates_cache, saved_files, game_state,
                 slots_info, deck_identificado, cartas_cache, call>>
  /\ UNCHANGED deckVars
  /\ UNCHANGED diskVars
  /\ UNCHANGED calibVars

\* run(): input() returns (or raises EOFError): the name is resolved, the
\* picture written and the card registered; then the state is stored.
ReviewAnswer(response, write_ok, api_ok) ==
  /\ pc = "review"
  /\ LET final_name == resolve_name(last.guess, response)
         r          == registrar_carta_identificada(i, final_name, api_ok)
     IN  /\ IF is_truthy(final_name)
              THEN /\ slots_identity' =
                        [slots_identity EXCEPT ![i] = final_name]
                   /\ saved_files' =
                        IF write_ok
                          THEN Append(saved_files,
                                      filename(final_name, timestamp(saved_files)))
                          ELSE saved_files
                   /\ disk' = write_learned(disk, saved_files, final_name,
                                             write_ok)
                   /\ IF game_state
                        THEN /\ slots_info' = r.info
                             /\ deck_identificado' = r.deck
                             /\ cartas_cache' = r.cache
                        ELSE UNCHANGED <<slots_info, deck_identificado,
                                         cartas_cache>>
              ELSE UNCHANGED <<slots_identity, saved_files, disk, slots_info,
                               deck_identificado, cartas_cache>>
         /\ slots_status' = [slots_status EXCEPT ![i] = last.cur]
         /\ last' = [last EXCEPT
                       !.response = response,
                       !.saved = (is_truthy(final_name) /\ write_ok),
                       !.written = IF is_truthy(final_name) /\ write_ok
                                     THEN last.shown ELSE "n/a",
                       !.accepted = IF is_truthy(final_name)
                                      THEN final_name ELSE None,
                       !.registered =
                          IF is_truthy(final_name) /\ game_state
                            THEN final_name ELSE None]
  /\ i' = next_slot(i)
  /\ pc' = "slots"
  /\ UNCHANGED <<frame, cycles, consecutive_failures, templates_cache,
                 game_state, subflows, call>>
  /\ UNCHANGED deckVars
  /\ UNCHANGED calibVars

\* Faulty variant of key_read_after: the key is read after every slot.
key_read_after_any_slot(slot_id) == TRUE

\* run(): cv2.waitKey(1) comes after the for loop, when slot_id has run
\* through range(len(SLOTS_CONFIG)).
key_read_after(slot_id) == slot_id = NumSlots

\* run(): the for loop is over: the debug window is shown and the key read.
EndCycle(quit) ==
  /\ pc = "slots"
  /\ key_read_after(i)
  /\ pc' = IF quit THEN "done" ELSE "capture"
  /\ UNCHANGED <<i, frame, cycles, consecutive_failures, slots_status,
                 slots_identity, templates_cache, saved_files, game_state,
                 slots_info, deck_identificado, cartas_cache, last, subflows,
                 call>>
  /\ UNCHANGED deckVars
  /\ UNCHANGED diskVars
  /\ UNCHANGED calibVars

\* ---------------------------------------------------------------------
\* calibrate_slots.py: SlotCalibrator
\* ---------------------------------------------------------------------
\* No slot waits for confirmation (pending_slot is None).
NoPendingSlot == [id |-> -1, left |-> 0, top |-> 0]

\* slots_config.txt does not exist.
NoConfigFile == [exists |-> FALSE, lines |-> <<>>]

\* Mouse events of the window, window coordinates of the pointer, and keys:
\* BACKSPACE, ENTER, 'q', 's', and 255 when no key was pressed.
MouseEvents == { "EVENT_MOUSEMOVE", "EVENT_LBUTTONDOWN", "EVENT_LBUTTONUP" }

WindowPoints == { <<10, 400>>, <<45, 400>> }

KEY_BACKSPACE == 8

KEY_ENTER == 13

ord_q == 113

ord_s == 115

Keys == { KEY_BACKSPACE, KEY_ENTER, ord_q, ord_s, 255 }

\* What happens to the file in save_config: open() fails (-1), a write
\* fails after some lines (0, 3), or all 8 lines are written.
SaveOutcomes == { -1, 0, 3, 8 }

NoCalibEvent == [kind |-> "none", event |-> "none", x |-> 0, y |-> 0, key |-> 255]

\* Faulty variant of mouse_callback: a click is not refused while a slot
\* waits for confirmation.
mouse_callback_replaces_pending(event, x, y) ==
  IF event = "EVENT_MOUSEMOVE"
    THEN [pending_slot |-> pending_slot, mouse_pos |-> <<x, y>>]
  ELSE IF event = "EVENT_LBUTTONDOWN" /\ Len(slots) < 8
    THEN [pending_slot |-> [id   |-> Len(slots),
                            left |-> monitor.left + 2 * x,
                            top  |-> monitor.top + 2 * y],
          mouse_pos    |-> mouse_pos]
    ELSE [pending_slot |-> pending_slot, mouse_pos |-> mouse_pos]

\* SlotCalibrator.mouse_callback: the new pending_slot and mouse_pos. The
\* window shows the screen at scale 0.5, so int(x / scale) is 2 * x.
mouse_callback(event, x, y) ==
  IF event = "EVENT_MOUSEMOVE"
    THEN [pending_slot |-> pending_slot, mouse_pos |-> <<x, y>>]
  ELSE IF event = "EVENT_LBUTTONDOWN"
    THEN IF pending_slot # NoPendingSlot
           THEN [pending_slot |-> pending_slot, mouse_pos |-> mouse_pos]
         ELSE IF Len(slots) >= 8
           THEN [pending_slot |-> pending_slot, mouse_pos |-> mouse_pos]
         ELSE [pending_slot |-> [id   |-> Len(slots),
                                 left |-> monitor.left + 2 * x,
                                 top  |-> monitor.top + 2 * y],
               mouse_pos    |-> mouse_pos]
    ELSE [pending_slot |-> pending_slot, mouse_pos |-> mouse_pos]

\* Faulty variant of may_save: the number of confirmed slots is not tested.
may_save_any_count(confirmed, pending) ==
  pending = NoPendingSlot

\* run(): the test made when 's' is pressed.
may_save(confirmed, pending) ==
  Len(confirmed) = 8 /\ pending = NoPendingSlot

\* SlotCalibrator.save_config: the file after the attempt, one line per
\* confirmed slot.
save_config(confirmed, file, outcome) ==
  IF outcome = -1 THEN file
  ELSE [exists |-> TRUE,
        lines  |-> SubSeq(confirmed, 1,
                          IF outcome < Len(confirmed) THEN outcome
                          ELSE Len(confirmed))]

\* SlotCalibrator.__init__
InitCalibrator ==
  /\ slots = <<>>
  /\ pending_slot = NoPendingSlot
  /\ mouse_pos = <<0, 0>>
  /\ calib_pc = "running"
  /\ slots_config_txt = NoConfigFile
  /\ calib_event = NoCalibEvent

\* The window delivers a mouse event to mouse_callback.
MouseCallback(event, x, y) ==
  /\ calib_pc = "running"
  /\ pending_slot' = mouse_callback(event, x, y).pending_slot
  /\ mouse_pos' = mouse_callback(event, x, y).mouse_pos
  /\ calib_event' = [NoCalibEvent EXCEPT !.kind = "mouse", !.event = event,
                                         !.x = x, !.y = y]
  /\ UNCHANGED <<slots, calib_pc, slots_config_txt>>
  /\ UNCHANGED deckVars
  /\ UNCHANGED watchVars
  /\ UNCHANGED diskVars

\* run(): one turn of the loop, cv2.waitKey(1) & 0xFF gives key; outcome is
\* what happens to the file if save_config is called.
WaitKey(key, outcome) ==
  /\ calib_pc = "running"
  /\ calib_event' = [NoCalibEvent EXCEPT !.kind = "key", !.key = key]
  /\ IF key = ord_q
       THEN /\ calib_pc' = "cancelled"
            /\ UNCHANGED <<slots, pending_slot, slots_config_txt>>
     ELSE IF key = KEY_ENTER
       THEN /\ IF pending_slot # NoPendingSlot
                 THEN /\ slots' = Append(slots, pending_slot)
                      /\ pending_slot' = NoPendingSlot
                 ELSE UNCHANGED <<slots, pending_slot>>
            /\ UNCHANGED <<calib_pc, slots_config_txt>>
     ELSE IF key = KEY_BACKSPACE
       THEN /\ IF pending_slot # NoPendingSlot
                 THEN pending_slot' = NoPendingSlot
                 ELSE UNCHANGED pending_slot
            /\ UNCHANGED <<slots, calib_pc, slots_config_txt>>
     ELSE IF key = ord_s
       THEN IF may_save(slots, pending_slot)
              THEN /\ slots_config_txt' =
                        save_config(slots, slots_config_txt, outcome)
                   /\ calib_pc' = IF outcome >= Len(slots)
                                    THEN "saved" ELSE "crashed"
                   /\ UNCHANGED <<slots, pending_slot>>
              ELSE UNCHANGED <<slots, pending_slot, calib_pc, slots_config_txt>>
     ELSE UNCHANGED <<slots, pending_slot, calib_pc, slots_config_txt>>
  /\ UNCHANGED mouse_pos
  /\ UNCHANGED deckVars
  /\ UNCHANGED watchVars
  /\ UNCHANGED diskVars

\* GameWatcher.__init__ (and GameState.__init__ when a token is set).
InitWatcher ==
  /\ pc = "capture"
  /\ i = 0
  /\ frame = NoFrame
  /\ cycles = 0
  /\ consecutive_failures = 0
  /\ slots_status = [s \in Slots |-> "UNKNOWN"]
  /\ slots_identity = [s \in Slots |-> None]
  /\ saved_files = <<>>
  /\ slots_info = [s \in Slots |->
                     [nome_carta |-> None, elixir |-> 0, carta_obj |-> None]]
  /\ deck_identificado = [s \in Slots |-> None]
  /\ cartas_cache = {}
  /\ last = NoLast
  /\ subflows = 0
  /\ call = NoCall

Init ==
  /\ InitWatcher
  /\ disk \in StartDisks
  /\ templates_cache = load_templates(disk)
  /\ templates_cache \in LibraryChoices
  /\ game_state \in BOOLEAN
  /\ mao = DeckStateInit(deck_nomes).mao
  /\ fila = DeckStateInit(deck_nomes).fila
  /\ played = <<>>
  /\ drawn = <<>>
  /\ slot_hist = <<>>
  /\ deck_error = "none"
  /\ snapshot = NoSnapshot
  /\ InitCalibrator

Next ==
  \/ CaptureFail
  \/ \E shape \in FrameShapes : CaptureOk(shape)
  \/ SlotSkipped
  \/ \E img \in ImagesFor(i) : StepNoEdge(img)
  \/ \E img \in ImagesFor(i) : StepCardPlayed(img)
  \/ \E img \in ImagesFor(i) : StepNewCardNoFrame(img)
  \/ \E img \in ImagesFor(i) : StepNewCardCrash(img)
  \/ \E img \in ImagesFor(i) : StepNewCardAuto(img)
  \/ \E img \in ImagesFor(i) : ReviewPrompt(img)
  \/ \E response \in UserResponses, write_ok \in BOOLEAN, api_ok \in BOOLEAN :
       ReviewAnswer(response, write_ok, api_ok)
  \/ \E quit \in BOOLEAN : EndCycle(quit)

Spec == Init /\ [][Next]_vars

\* A watcher started with a token and with templates on disk.
InitLive ==
  /\ Init
  /\ templates_cache # <<>>
  /\ game_state

\* The loop keeps running: some step of run() is always taken when one is
\* possible.
SpecLive == InitLive /\ [][Next]_vars /\ WF_vars(Next)

InitDeck ==
  /\ mao = DeckStateInit(deck_nomes).mao
  /\ fila = DeckStateInit(deck_nomes).fila
  /\ played = <<>>
  /\ drawn = <<>>
  /\ slot_hist = <<>>
  /\ deck_error = "none"
  /\ snapshot = NoSnapshot
  /\ InitCalibrator
  /\ InitWatcher
  /\ disk = NoDisk
  /\ templates_cache = <<>>
  /\ game_state = FALSE

NextDeck == \E indice_mao \in IndiceInputs : RegistrarJogada(indice_mao)

SpecDeck == InitDeck /\ [][NextDeck]_vars

\* ---- single calls of DeckState.registrar_jogada, with their argument ----
\* Indices given to the calls: all of the hand, and both sides outside it.
CallIndices == -5..5

\* deck.registrar_jogada(indice_mao): IndexError of the first guard,
\* RuntimeError of the second, IndexError of the list itself, or the play.
CallRegistrarJogada(indice_mao) ==
  /\ Len(played) < MaxPlays
  /\ LET at     == list_index(indice_mao, 4)
         raised == IF ~index_in_hand(indice_mao, mao) THEN "IndexError"
                   ELSE IF fila = <<>> THEN "RuntimeError"
                   ELSE IF at \notin HandSlots THEN "IndexError"
                   ELSE "none"
     IN  /\ call' = [fn |-> "registrar_jogada", indice_mao |-> indice_mao,
                     raised |-> raised]
         /\ deck_error' = raised
         /\ IF raised = "none"
              THEN LET r == registrar_jogada(mao, fila, at)
                   IN  /\ mao' = r.mao
                       /\ fila' = r.fila
                       /\ played' = Append(played, mao[at])
                       /\ drawn' = Append(drawn, r.mao[at])
                       /\ slot_hist' = Append(slot_hist, at)
              ELSE UNCHANGED <<mao, fila, played, drawn, slot_hist>>
  /\ UNCHANGED snapshot
  /\ UNCHANGED <<pc, i, frame, cycles, consecutive_failures, slots_status,
                 slots_identity, templates_cache, saved_files, game_state,
                 slots_info, deck_identificado, cartas_cache, last, subflows>>
  /\ UNCHANGED diskVars
  /\ UNCHANGED calibVars

NextDeckCall == \E indice_mao \in CallIndices : CallRegistrarJogada(indice_mao)

SpecDeckCall == InitDeck /\ [][NextDeckCall]_vars

\* ---- the polling loop with keyboard interrupts ----
\* run(): KeyboardInterrupt (Ctrl-C) is raised between two steps of the
\* loop or while input() blocks in a review; the except clause around the
\* loop body ends the loop.
Interrupt ==
  /\ pc \in {"capture", "slots", "review"}
  /\ pc' = "interrupted"
  /\ UNCHANGED <<i, frame, cycles, consecutive_failures, slots_status,
                 slots_identity, templates_cache, saved_files, game_state,
                 slots_info, deck_identificado, cartas_cache, last, subflows,
                 call>>
  /\ UNCHANGED deckVars
  /\ UNCHANGED diskVars
  /\ UNCHANGED calibVars

\* run(): EMPTY -> FULL, and KeyboardInterrupt is raised in time.sleep(1.5):
\* the loop ends before the re-capture and before the state is stored.
InterruptInSettleDelay(img) ==
  /\ pc = "slots"
  /\ i < NumSlots
  /\ get_slot_roi(frame, i)
  /\ IsNewCard(Classified(img).prev, Classified(img).cur)
  /\ last' = [Classified(img) EXCEPT !.event = "new_card",
                                     !.recapture = "interrupted",
                                     !.error = "KeyboardInterrupt"]
  /\ pc' = "interrupted"
  /\ subflows' = subflows + 1
  /\ UNCHANGED <<i, frame, cycles, consecutive_failures, slots_status,
                 slots_identity, templates_cache, saved_files, game_state,
                 slots_info, deck_identificado, cartas_cache, call>>
  /\ UNCHANGED deckVars
  /\ UNCHANGED diskVars
  /\ UNCHANGED calibVars

NextInterrupt ==
  \/ Next
  \/ Interrupt
  \/ \E img \in ImagesFor(i) : InterruptInSettleDelay(img)

SpecInterrupt == Init /\ [][NextInterrupt]_vars

\* ---- DeckState as its callers use it ----
\* Decks given to DeckState(...): 0 to 9 cards, and the deck of main() with
\* hand and queue exchanged.
more_cards == deck_nomes \o <<"Mirror">>

DeckInputs ==
  { SubSeq(more_cards, 1, n) : n \in 0..9 } \cup
    { SubSeq(deck_nomes, 5, 8) \o SubSeq(deck_nomes, 1, 4) }

\* Hand indices played by the callers.
ApiIndices == {0, 3}

\* What a caller does to a list it got: lst[0] = "Mirror", lst.reverse().
Changes == { "set", "reverse" }

Changed(lst, change) ==
  IF change = "set" THEN [lst EXCEPT ![1] = "Mirror"]
  ELSE [k \in 1..Len(lst) |-> lst[Len(lst) + 1 - k]]

\* The elements of the list the caller holds.
SnapshotList ==
  IF ~snapshot.alias THEN snapshot.items
  ELSE IF snapshot.src = "mao" THEN [k \in 1..4 |-> mao[k - 1]]
  ELSE fila

\* deck = DeckState(cartas): a new deck replaces the old one, or ValueError
\* is raised and nothing is created.
NewDeckState(cartas) ==
  /\ LET r == DeckState(cartas)
     IN  /\ call' = [fn |-> "DeckState", cartas |-> cartas, result |-> r]
         /\ IF r.raised = "none"
              THEN /\ mao' = r.mao
                   /\ fila' = r.fila
                   /\ played' = <<>>
                   /\ drawn' = <<>>
                   /\ slot_hist' = <<>>
                   /\ deck_error' = "none"
                   /\ snapshot' = NoSnapshot
              ELSE UNCHANGED deckVars
  /\ UNCHANGED <<pc, i, frame, cycles, consecutive_failures, slots_status,
                 slots_identity, templates_cache, saved_files, game_state,
                 slots_info, deck_identificado, cartas_cache, last, subflows>>
  /\ UNCHANGED diskVars
  /\ UNCHANGED calibVars

\* lst = deck.mao
GetMao ==
  /\ snapshot' = [src |-> "mao", alias |-> mao_property(mao).alias,
                  items |-> mao_property(mao).items,
                  taken |-> mao_property(mao).items, changes |-> 0]
  /\ UNCHANGED <<mao, fila, played, drawn, slot_hist, deck_error>>
  /\ UNCHANGED watchVars
  /\ UNCHANGED diskVars
  /\ UNCHANGED calibVars

\* lst = deck.fila
GetFila ==
  /\ snapshot' = [src |-> "fila", alias |-> fila_property(fila).alias,
                  items |-> fila_property(fila).items,
                  taken |-> fila_property(fila).items, changes |-> 0]
  /\ UNCHANGED <<mao, fila, played, drawn, slot_hist, deck_error>>
  /\ UNCHANGED watchVars
  /\ UNCHANGED diskVars
  /\ UNCHANGED calibVars

\* The caller changes the list it holds.
ChangeSnapshot(change) ==
  /\ snapshot.src # "none"
  /\ snapshot.changes < MaxChanges
  /\ IF ~snapshot.alias
       THEN /\ snapshot' = [snapshot EXCEPT !.items = Changed(@, change),
                                            !.changes = @ + 1]
            /\ UNCHANGED <<mao, fila>>
       ELSE /\ snapshot' = [snapshot EXCEPT !.changes = @ + 1]
            /\ IF snapshot.src = "mao"
                 THEN /\ mao' = [s \in HandSlots |->
                                   Changed(SnapshotList, change)[s + 1]]
                      /\ fila' = fila
                 ELSE /\ fila' = Changed(SnapshotList, change)
                      /\ mao' = mao
  /\ UNCHANGED <<played, drawn, slot_hist, deck_error>>
  /\ UNCHANGED watchVars
  /\ UNCHANGED diskVars
  /\ UNCHANGED calibVars

NextDeckApi ==
  \/ \E cartas \in DeckInputs : NewDeckState(cartas)
  \/ GetMao
  \/ GetFila
  \/ \E change \in Changes : ChangeSnapshot(change)
  \/ \E indice_mao \in ApiIndices : RegistrarJogada(indice_mao)

SpecDeckApi == InitDeck /\ [][NextDeckApi]_vars

\* ---- direct calls of CardIdentifier.get_best_guess ----
\* Libraries for the direct calls: empty, two names, and two names of which
\* the first has two images (iteration order 1, 3, 2).
GuessLibraries ==
  LibraryChoices \cup
    { << [nome |-> "Hog Rider", templates |-> <<1, 3>>],
         [nome |-> "Giant",     templates |-> <<2>>] >> }

GuessTemplateIds == {1, 2, 3}

GuessScoreVectors == [GuessTemplateIds -> ScoreOutcomes]

\* The candidate given to get_best_guess: a picture, or None.
Targets == { "image", None }

CallGetBestGuess(target_img, sc) ==
  /\ call' = [fn |-> "get_best_guess", target |-> target_img, sc |-> sc,
              result |-> get_best_guess(templates_cache, target_img, sc)]
  /\ UNCHANGED <<pc, i, frame, cycles, consecutive_failures, slots_status,
                 slots_identity, templates_cache, saved_files, game_state,
                 slots_info, deck_identificado, cartas_cache, last, subflows>>
  /\ UNCHANGED deckVars
  /\ UNCHANGED diskVars
  /\ UNCHANGED calibVars

InitGuess ==
  /\ InitWatcher
  /\ disk = NoDisk
  /\ templates_cache \in GuessLibraries
  /\ game_state = FALSE
  /\ mao = DeckStateInit(deck_nomes).mao
  /\ fila = DeckStateInit(deck_nomes).fila
  /\ played = <<>>
  /\ drawn = <<>>
  /\ slot_hist = <<>>
  /\ deck_error = "none"
  /\ snapshot = NoSnapshot
  /\ InitCalibrator

NextGuess ==
  \E target_img \in Targets, sc \in GuessScoreVectors :
    CallGetBestGuess(target_img, sc)

SpecGuess == InitGuess /\ [][NextGuess]_vars

\* ---- direct calls of the classification of run() ----
\* Slot pictures for the direct calls: every palette colour, moved along
\* the red axis to the distances 0, 24 and 25, and a far colour; mean
\* saturations at, under and over the threshold.
ClassifyColors ==
  { <<c[1], c[2], c[3] + d>> : c \in red_colors_bgr, d \in {-25, -24, 0, 24, 25} }
    \cup { <<200, 120, 40>> }

ClassifySats == { 0, 59, 60, 61, 200 }

ClassifyImages == [avg : ClassifyColors, sat : ClassifySats]

\* run(): is_red_bg, sat, is_saturated and current_state of one slot picture.
CallClassify(slot_img) ==
  /\ call' = [fn |-> "classify", img |-> slot_img,
              is_red_bg |-> is_background_red(slot_img),
              current_state |->
                classify(is_background_red(slot_img), slot_img.sat)]
  /\ UNCHANGED <<pc, i, frame, cycles, consecutive_failures, slots_status,
                 slots_identity, templates_cache, saved_files, game_state,
                 slots_info, deck_identificado, cartas_cache, last, subflows>>
  /\ UNCHANGED deckVars
  /\ UNCHANGED diskVars
  /\ UNCHANGED calibVars

NextClassify == \E slot_img \in ClassifyImages : CallClassify(slot_img)

SpecClassify == InitGuess /\ [][NextClassify]_vars

\* ---- direct calls of GameState ----
\* Slots and names given to the calls: a card of the API in two spellings,
\* a second card of the API, and a name the API does not know.
StateSlots == {0, 7}

StateNames == { "Giant", "giant", "Hog Rider", "Hog_Rider" }

NoStateCall ==
  [fn |-> "none", slot_id |-> -1, nome_carta |-> None, api_ok |-> FALSE,
   custo |-> 0]

\* game_state.registrar_carta_identificada(slot_id, nome_carta); api_ok
\* tells whether api.listar_cartas() answers or raises.
CallRegistrarCartaIdentificada(slot_id, nome_carta, api_ok) ==
  /\ game_state
  /\ LET r == registrar_carta_identificada(slot_id, nome_carta, api_ok)
     IN  /\ slots_info' = r.info
         /\ deck_identificado' = r.deck
         /\ cartas_cache' = r.cache
  /\ call' = [NoStateCall EXCEPT !.fn = "registrar_carta_identificada",
                                 !.slot_id = slot_id,
                                 !.nome_carta = nome_carta,
                                 !.api_ok = api_ok]
  /\ UNCHANGED <<pc, i, frame, cycles, consecutive_failures, slots_status,
                 slots_identity, templates_cache, saved_files, game_state,
                 last, subflows>>
  /\ UNCHANGED deckVars
  /\ UNCHANGED diskVars
  /\ UNCHANGED calibVars

\* game_state.registrar_carta_jogada(slot_id)
CallRegistrarCartaJogada(slot_id) ==
  /\ game_state
  /\ call' = [NoStateCall EXCEPT !.fn = "registrar_carta_jogada",
                                 !.slot_id = slot_id,
                                 !.custo = registrar_carta_jogada(slots_info,
                                                                  slot_id)]
  /\ UNCHANGED <<pc, i, frame, cycles, consecutive_failures, slots_status,
                 slots_identity, templates_cache, saved_files, game_state,
                 slots_info, deck_identificado, cartas_cache, last, subflows>>
  /\ UNCHANGED deckVars
  /\ UNCHANGED diskVars
  /\ UNCHANGED calibVars

\* A GameState just created: GameState.__init__.
InitGameState ==
  /\ InitWatcher
  /\ disk = NoDisk
  /\ templates_cache = <<>>
  /\ game_state = TRUE
  /\ mao = DeckStateInit(deck_nomes).mao
  /\ fila = DeckStateInit(deck_nomes).fila
  /\ played = <<>>
  /\ drawn = <<>>
  /\ slot_hist = <<>>
  /\ deck_error = "none"
  /\ snapshot = NoSnapshot
  /\ InitCalibrator

NextGameState ==
  \/ \E slot_id \in StateSlots, nome_carta \in StateNames, api_ok \in BOOLEAN :
       CallRegistrarCartaIdentificada(slot_id, nome_carta, api_ok)
  \/ \E slot_id \in StateSlots : CallRegistrarCartaJogada(slot_id)

SpecGameState == InitGameState /\ [][NextGameState]_vars

\* ---- the template directories over several starts of the program ----
\* What cards-templates may hold: any of the downloaded files, in any
\* order, each of them decodable or not; or the directory is missing.
BaseDirs ==
  { NoDir } \cup
    { Dir(files) :
        files \in
          { fs \in UNION { [1..n -> { OnDisk(f, ok) : f \in DownloadedFiles,
                                                     ok \in BOOLEAN }] :
                             n \in 0..Cardinality(DownloadedFiles) } :
              \A j, k \in DOMAIN fs : j # k => fs[j].stem # fs[k].stem } }

\* The directories at the first start: cards-templates-user is missing or
\* empty.
LoadDisks == [base : BaseDirs, user : { NoDir, Dir(<<>>) }]

\* The names in a library.
NamesIn(cache) == { cache[k].nome : k \in 1..Len(cache) }

\* CardIdentifier(templates_dirs) as called.
LoadCall(d) == [fn |-> "_load_templates", dirs |-> d]

\* run(), the review branch seen from the file system: a review of the
\* running watcher ends with a name, and the picture is written.
WriteLearned(best_guess, response, write_ok) ==
  /\ Len(saved_files) < MaxFiles
  /\ LET final_name == resolve_name(best_guess, response)
     IN  /\ is_truthy(final_name)
         /\ saved_files' =
              IF write_ok
                THEN Append(saved_files,
                            filename(final_name, timestamp(saved_files)))
                ELSE saved_files
         /\ disk' = write_learned(disk, saved_files, final_name, write_ok)
  /\ UNCHANGED <<pc, i, frame, cycles, consecutive_failures, slots_status,
                 slots_identity, templates_cache, game_state, slots_info,
                 deck_identificado, cartas_cache, last, subflows, call>>
  /\ UNCHANGED deckVars
  /\ UNCHANGED calibVars

\* The program is started again: GameWatcher.__init__ builds a new
\* CardIdentifier, which loads the directories as they are now.
StartAgain ==
  /\ templates_cache' = load_templates(disk)
  /\ call' = LoadCall(disk)
  /\ pc' = "capture"
  /\ i' = 0
  /\ frame' = NoFrame
  /\ cycles' = 0
  /\ consecutive_failures' = 0
  /\ slots_status' = [s \in Slots |-> "UNKNOWN"]
  /\ slots_identity' = [s \in Slots |-> None]
  /\ last' = NoLast
  /\ subflows' = 0
  /\ UNCHANGED <<saved_files, game_state, slots_info, deck_identificado,
                 cartas_cache>>
  /\ UNCHANGED deckVars
  /\ UNCHANGED diskVars
  /\ UNCHANGED calibVars

\* The watcher after its first start, on any of the directories.
InitLoad ==
  /\ disk \in LoadDisks
  /\ templates_cache = load_templates(disk)
  /\ call = LoadCall(disk)
  /\ pc = "capture"
  /\ i = 0
  /\ frame = NoFrame
  /\ cycles = 0
  /\ consecutive_failures = 0
  /\ slots_status = [s \in Slots |-> "UNKNOWN"]
  /\ slots_identity = [s \in Slots |-> None]
  /\ saved_files = <<>>
  /\ slots_info = [s \in Slots |->
                     [nome_carta |-> None, elixir |-> 0, carta_obj |-> None]]
  /\ deck_identificado = [s \in Slots |-> None]
  /\ cartas_cache = {}
  /\ last = NoLast
  /\ subflows = 0
  /\ game_state = FALSE
  /\ mao = DeckStateInit(deck_nomes).mao
  /\ fila = DeckStateInit(deck_nomes).fila
  /\ played = <<>>
  /\ drawn = <<>>
  /\ slot_hist = <<>>
  /\ deck_error = "none"
  /\ snapshot = NoSnapshot
  /\ InitCalibrator

NextLoad ==
  \/ \E best_guess \in NamesIn(templates_cache) \cup { None },
        response \in UserResponses, write_ok \in BOOLEAN :
       WriteLearned(best_guess, response, write_ok)
  \/ StartAgain

SpecLoad == InitLoad /\ [][NextLoad]_vars

\* ---- the slot calibration ----
NextCalibrate ==
  \/ \E event \in MouseEvents, p \in WindowPoints :
       MouseCallback(event, p[1], p[2])
  \/ \E key \in Keys, outcome \in SaveOutcomes : WaitKey(key, outcome)

SpecCalibrate == InitDeck /\ [][NextCalibrate]_vars

\* ---------------------------------------------------------------------
\* Claims about the rotation model (checked under SpecDeck)
\* ---------------------------------------------------------------------

\* C1 as stated: the model starts empty, the first four plays only fill
\* the queue, and after four plays the queue is exactly the four played
\* names while every hand slot is still unassigned.
C1_BootstrapAsClaimed ==
  Len(played) <= 4 =>
    /\ fila = played
    /\ \A s \in HandSlots : mao[s] = None

\* C1 amended: there is no bootstrap phase. The model is created full (hand =
\* first four cards, queue = last four), every hand slot is assigned at all
\* times, every play appends the played card to the queue tail, and after
\* exactly four plays A, B, C, D the queue is [A, B, C, D] in arrival order.
C1_NoBootstrap ==
  /\ \A s \in HandSlots : mao[s] # None
  /\ Len(fila) = 4
  /\ Len(played) <= 4 =>
       fila = SubSeq(deck_nomes, 5 + Len(played), 8) \o played
  /\ Len(played) = 4 => fila = played

C1_Witness ==
  /\ Len(played) = 4
  /\ fila = played
  /\ \A s \in HandSlots : mao[s] # None
  /\ played[1] # played[2]

\* C2: with four queued entries a play of hand slot i pops the queue head
\* into hand slot i, changes no other hand slot, and appends the played
\* card to the queue tail.
C2_SteadyStateStep ==
  [][ (Len(fila) = 4 /\ Len(played') = Len(played) + 1) =>
        LET idx      == slot_hist'[Len(slot_hist')]
            cardName == played'[Len(played')]
        IN  /\ cardName = mao[idx]
            /\ mao'[idx] = Head(fila)
            /\ \A s \in HandSlots \ {idx} : mao'[s] = mao[s]
            /\ fila' = Append(Tail(fila), cardName) ]_vars

\* The example of the specification: queue [A,B,C,D], play of slot 2 holding
\* E, gives hand slot 2 = A and queue [B,C,D,E].
C2_Witness ==
  /\ played = <<"Fireball">>
  /\ slot_hist = <<2>>
  /\ mao[2] = "Hog Rider"
  /\ fila = <<"Arrows", "Ice Golem", "Tornado", "Fireball">>

\* C3: the hand always has exactly 4 slots, the queue never more than 4
\* entries, and a queue of length 4 has length 4 after every later play.
C3_SizeInvariant ==
  /\ [](/\ DOMAIN mao = HandSlots
        /\ Len(fila) <= 4
        /\ Cardinality(DOMAIN mao) + Len(fila) <= 8)
  /\ [][Len(fila) = 4 => Len(fila') = 4]_vars

C3_Witness ==
  /\ Len(played) = MaxPlays
  /\ Len(fila) = 4
  /\ Cardinality(DOMAIN mao) = 4

\* C4: from the 5th play on, the card put into the hand at play k is the
\* card played at play k-4, whatever hand index play k used.
C4_OldestFirst ==
  \A k \in 1..Len(played) : k >= 5 => drawn[k] = played[k - 4]

C4_Witness ==
  /\ Len(played) >= 5
  /\ slot_hist[5] # slot_hist[1]
  /\ drawn[5] = played[1]

\* The cards of the hand and of the queue, hand first.
AllCards == [k \in 1..4 |-> mao[k - 1]] \o fila

\* C24: registrar_jogada(i) with 0 <= i < 4 keeps the FIFO order: the card
\* of hand slot i becomes the last queue entry, the former queue head
\* becomes the card of hand slot i, the other three hand slots are
\* unchanged, the other queue entries keep their order one place nearer the
\* head, and the eight cards stay the same eight.
C24_FifoPreserved ==
  [][ (Len(slot_hist') = Len(slot_hist) + 1) =>
        LET indice_mao == slot_hist'[Len(slot_hist')]
        IN  /\ indice_mao \in HandSlots
            /\ deck_error' = "none"
            /\ fila'[Len(fila')] = mao[indice_mao]
            /\ mao'[indice_mao] = fila[1]
            /\ \A s \in HandSlots : s # indice_mao => mao'[s] = mao[s]
            /\ Len(fila') = Len(fila)
            /\ \A k \in 1..(Len(fila) - 1) : fila'[k] = fila[k + 1]
            /\ { AllCards'[k] : k \in 1..8 } = { AllCards[k] : k \in 1..8 }
            /\ Cardinality({ AllCards'[k] : k \in 1..8 }) = 8 ]_vars

\* Hand slot 0 played twice: Witch, then Hog Rider which replaced it.
C24_Witness ==
  /\ slot_hist = <<0, 0>>
  /\ played = <<"Witch", "Hog Rider">>
  /\ mao[0] = "Arrows"
  /\ mao[1] = "Giant"
  /\ fila = <<"Ice Golem", "Tornado", "Witch", "Hog Rider">>

\* How often card c occurs in the sequence seq.
Count(seq, c) == Cardinality({ k \in 1..Len(seq) : seq[k] = c })

\* C33: DeckState conserves the deck: after any sequence of
\* registrar_jogada calls the hand has exactly 4 cards, the queue exactly 4
\* cards, hand and queue together hold the 8 cards given at construction,
\* each as often as it was given, and RuntimeError is never raised.
C33_DeckConserved ==
  /\ DOMAIN mao = HandSlots
  /\ Len(fila) = 4
  /\ \A c \in { deck_nomes[k] : k \in 1..8 } \cup { AllCards[k] : k \in 1..8 } :
       Count(AllCards, c) = Count(deck_nomes, c)
  /\ deck_error # "RuntimeError"

\* Five plays of hand slots 1 and 2 with a call outside the hand in between:
\* every card is there once, in another place than at construction.
C33_Witness ==
  /\ Len(played) = 5
  /\ deck_error = "IndexError"
  /\ \A s \in HandSlots : slot_hist[s + 1] \in {1, 2}
  /\ AllCards # deck_nomes
  /\ \A k \in 1..8 : Count(AllCards, deck_nomes[k]) = 1

\* C34: a card played at play k is in no hand slot after the plays k, k+1,
\* k+2 and k+3, and play k+4 puts it into the hand slot that play k+4
\* names, whatever the hand indices of the plays are.
C34_ReturnsAtFourthPlay ==
  LET n == Len(played)
  IN  /\ \A k \in 1..n :
            n - k <= 3 => \A s \in HandSlots : mao[s] # played[k]
      /\ \A k \in 1..n :
            k + 4 <= n => /\ drawn[k + 4] = played[k]
                          /\ slot_hist[k + 4] \in HandSlots
      /\ n >= 5 => mao[slot_hist[n]] = played[n - 4]

\* Witch leaves hand slot 0 at play 1 and is back, in hand slot 3, at play 5.
C34_Witness ==
  /\ Len(played) = 5
  /\ played[1] = "Witch"
  /\ slot_hist[1] = 0
  /\ slot_hist[5] = 3
  /\ mao[3] = "Witch"
  /\ mao[0] # "Witch"

\* ---------------------------------------------------------------------
\* Claims about single registrar_jogada calls (checked under SpecDeckCall)
\* ---------------------------------------------------------------------

\* C35: registrar_jogada with an index outside 0..3, negative ones
\* included, raises IndexError and leaves hand and queue as they were.
C35_IndexErrorLeavesState ==
  /\ []((call.fn = "registrar_jogada" /\ call.indice_mao \notin HandSlots) =>
          /\ call.raised = "IndexError"
          /\ deck_error = "IndexError")
  /\ [][ (call'.fn = "registrar_jogada" /\ call'.indice_mao \notin HandSlots) =>
           /\ mao' = mao
           /\ fila' = fila
           /\ played' = played ]_vars

\* After one play of hand slot 0 a call with index -1 is refused.
C35_Witness ==
  /\ call.fn = "registrar_jogada"
  /\ call.indice_mao = -1
  /\ call.raised = "IndexError"
  /\ played = <<"Witch">>
  /\ mao[0] = "Hog Rider"
  /\ mao[3] = "Electro Wizard"
  /\ fila = <<"Arrows", "Ice Golem", "Tornado", "Witch">>

\* ---------------------------------------------------------------------
\* Claims about DeckState as its callers use it (checked under SpecDeckApi)
\* ---------------------------------------------------------------------

\* C25: a list got from DeckState.mao or DeckState.fila is a copy: as long
\* as the caller does not change it, it shows the hand or queue of the
\* moment it was taken, whatever is played afterwards; a change the caller
\* makes to it changes that list and neither the hand nor the queue of the
\* model.
C25_SnapshotsAreCopies ==
  /\ []((snapshot.src # "none" /\ snapshot.changes = 0) =>
          SnapshotList = snapshot.taken)
  /\ [][ (snapshot.src # "none" /\ snapshot'.changes = snapshot.changes + 1) =>
           /\ mao' = mao
           /\ fila' = fila
           /\ \E change \in Changes :
                SnapshotList' = Changed(SnapshotList, change) ]_vars
  /\ [][ (snapshot.src # "none" /\ Len(slot_hist') = Len(slot_hist) + 1) =>
           /\ SnapshotList' = SnapshotList
           /\ mao' # mao
           /\ fila' # fila ]_vars

\* The hand was taken before any play and its first element overwritten;
\* then hand slot 0 was played: the model played Witch and drew Hog Rider.
C25_Witness ==
  /\ snapshot.src = "mao"
  /\ snapshot.taken = <<"Witch", "Giant", "Fireball", "Electro Wizard">>
  /\ SnapshotList = <<"Mirror", "Giant", "Fireball", "Electro Wizard">>
  /\ slot_hist = <<0>>
  /\ played = <<"Witch">>
  /\ mao[0] = "Hog Rider"
  /\ fila = <<"Arrows", "Ice Golem", "Tornado", "Witch">>

\* C26: DeckState(cartas) raises ValueError and creates nothing when cartas
\* has not exactly 8 elements; for 8 cards the hand is the first four in
\* their order and the queue the last four in their order.
C26_ExactlyEightCards ==
  /\ [](call.fn = "DeckState" =>
          /\ Len(call.cartas) # 8 =>
               /\ call.result.raised = "ValueError"
               /\ call.result.mao = <<>>
               /\ call.result.fila = <<>>
          /\ Len(call.cartas) = 8 =>
               /\ call.result.raised = "none"
               /\ \A s \in HandSlots : call.result.mao[s] = call.cartas[s + 1]
               /\ call.result.fila = <<call.cartas[5], call.cartas[6],
                                       call.cartas[7], call.cartas[8]>>)
  /\ [][ (call' # call /\ call'.fn = "DeckState") =>
           IF Len(call'.cartas) = 8
             THEN /\ \A s \in HandSlots : mao'[s] = call'.cartas[s + 1]
                  /\ fila' = SubSeq(call'.cartas, 5, 8)
                  /\ played' = <<>>
             ELSE UNCHANGED deckVars ]_vars

\* Nine cards are refused after a play: the deck in use is left as it was.
C26_Witness ==
  /\ call.fn = "DeckState"
  /\ Len(call.cartas) = 9
  /\ call.result.raised = "ValueError"
  /\ played = <<"Witch">>
  /\ mao[0] = "Hog Rider"

\* ---------------------------------------------------------------------
\* Claims about the polling loop (checked under Spec)
\* ---------------------------------------------------------------------

\* C5: a classified slot is FULL exactly when its picture is not
\* background-red and its mean saturation exceeds the threshold; a
\* background-red picture is EMPTY whatever its saturation, and so is a
\* picture of low saturation that is not background-red.
C5_OccupancyDecision ==
  last.kind = "step" =>
    /\ last.cur \in {"EMPTY", "FULL"}
    /\ last.cur = "FULL" <=>
         (~last.is_red /\ last.sat > SATURATION_THRESHOLD)
    /\ last.is_red => last.cur = "EMPTY"
    /\ (~last.is_red /\ last.sat <= SATURATION_THRESHOLD) => last.cur = "EMPTY"

C5_Witness ==
  /\ last.kind = "step"
  /\ last.is_red
  /\ last.sat > SATURATION_THRESHOLD
  /\ last.cur = "EMPTY"
  /\ slots_status[last.slot] = "EMPTY"

\* C6: the first classification of a slot (previous state UNKNOWN) emits no
\* event, whatever the classified state: no re-capture, no identification,
\* no prompt, no identity, no registration of an identification or a play.
C6_NoEventOnFirstClassification ==
  (last.kind = "step" /\ last.prev = "UNKNOWN") =>
    /\ last.event = "none"
    /\ last.recapture = "n/a"
    /\ ~last.guessed
    /\ ~last.prompted
    /\ ~last.saved
    /\ last.accepted = None
    /\ last.registered = None
    /\ ~last.jogada

C6_Witness ==
  /\ last.kind = "step"
  /\ last.prev = "UNKNOWN"
  /\ last.cur = "FULL"
  /\ last.event = "none"
  /\ slots_status[last.slot] = "FULL"

\* C7 as stated: whenever a slot is classified, exactly one event is emitted
\* if the state differs from the previous EMPTY/FULL state and none
\* otherwise, and once the slot is dealt with (any review answered) the
\* stored state is the new classification.
C7_OneEventAndStateStored ==
  (last.kind = "step" /\ pc # "review") =>
    /\ last.event =
         (IF last.prev = "EMPTY" /\ last.cur = "FULL" THEN "new_card"
          ELSE IF last.prev = "FULL" /\ last.cur = "EMPTY" THEN "played"
          ELSE "none")
    /\ slots_status[last.slot] = last.cur

\* C8 as stated: an EMPTY -> FULL edge on a slot 4..7 never triggers the
\* re-capture, identification, review or registration.
C8_HandSlotsOnly ==
  (last.kind = "step" /\ last.slot >= 4) =>
    /\ last.recapture = "n/a"
    /\ ~last.guessed
    /\ ~last.prompted
    /\ last.accepted = None
    /\ last.registered = None

\* C8 amended: an EMPTY -> FULL edge starts the identification/review
\* sub-flow on every monitored slot, 4..7 as well as 0..3: the re-capture is
\* made, and when it yields the slot's picture the best guess is computed
\* and is either accepted or reviewed.
C8_EverySlotForwarded ==
  last.kind = "step" =>
    /\ (last.prev = "EMPTY" /\ last.cur = "FULL") <=> last.event = "new_card"
    /\ last.event = "new_card" <=> last.recapture # "n/a"
    /\ last.recapture = "ok" =>
         /\ last.guessed
         /\ last.prompted \/ last.accepted = last.guess

C8_Witness ==
  /\ last.kind = "step"
  /\ last.slot = 4
  /\ last.event = "new_card"
  /\ last.guessed
  /\ last.accepted = "Giant"
  /\ slots_identity[4] = "Giant"

\* C9 as stated: whenever an EMPTY -> FULL event reaches identification, a
\* score >= 0.75 is accepted with no prompt and no image written, and a
\* score < 0.75 always enters the operator prompt.
C9_ConfidenceGate ==
  (last.kind = "step" /\ last.guessed) =>
    /\ last.score >= CONFIRMATION_THRESHOLD =>
         /\ ~last.prompted
         /\ ~last.saved
         /\ last.accepted = last.guess
    /\ last.score < CONFIRMATION_THRESHOLD => last.prompted

\* C10 as stated: every confirmed identification on a hand slot results in
\* one registration call with the confirmed name.
C10_AlwaysRegistered ==
  (last.kind = "step" /\ last.slot \in HandSlots /\ last.accepted # None) =>
    last.registered = last.accepted

\* C10 amended: every confirmed identification, automatic or reviewed,
\* records the confirmed name as the identity of the slot; when a GameState
\* exists it is followed by one registrar_carta_identificada(slot, name) with
\* that name, and without a GameState by none; the DeckState rotation model
\* is not touched by the loop.
C10_RegisteredWhenGameState ==
  /\ last.kind = "step" =>
       /\ last.accepted # None =>
            /\ slots_identity[last.slot] = last.accepted
            /\ last.registered = (IF game_state THEN last.accepted ELSE None)
            /\ game_state => slots_info[last.slot].nome_carta = last.accepted
       /\ last.accepted = None => last.registered = None
  /\ played = <<>>
  /\ fila = DeckStateInit(deck_nomes).fila
  /\ mao = DeckStateInit(deck_nomes).mao

C10_Witness ==
  /\ last.kind = "step"
  /\ last.slot = 0
  /\ last.guess = "Hog Rider"
  /\ last.score = 91
  /\ ~last.prompted
  /\ game_state
  /\ last.registered = "Hog Rider"
  /\ slots_identity[0] = "Hog Rider"
  /\ slots_info[0].nome_carta = "Hog Rider"

\* The answers that are no input: end of input, the empty line, blanks.
NoInput == { EOF, "", " " }

\* A review of the slot last.slot has been answered.
ReviewAnswered ==
  last.kind = "step" /\ last.prompted /\ last.response # None

\* C11 as stated: no input confirms the best guess, an input replaces it
\* trimmed and title-cased, and whenever the final name is non-empty the
\* picture is persisted under that name and the name is the slot's identity.
C11_ReviewResolution ==
  ReviewAnswered =>
    /\ last.response \in NoInput => last.accepted = last.guess
    /\ last.response = " hog rider " => last.accepted = "Hog Rider"
    /\ last.accepted # None =>
         /\ slots_identity[last.slot] = last.accepted
         /\ last.saved
         /\ saved_files # <<>>

\* C11 amended: the name is resolved as stated and a non-empty final name
\* always becomes the slot's identity; the picture is written to a new file
\* <name with blanks as underscores>_<timestamp> only when the write
\* succeeds, and a failed write still leaves the identity set.
C11_ReviewResolutionWriteMayFail ==
  /\ ReviewAnswered =>
       /\ last.response \in NoInput => last.accepted = last.guess
       /\ last.response = " hog rider " => last.accepted = "Hog Rider"
       /\ last.accepted # None => slots_identity[last.slot] = last.accepted
       /\ last.accepted = None => ~last.saved
       /\ last.saved =>
            LET written == saved_files[Len(saved_files)]
                cut     == Len(written) - 1
            IN  /\ saved_files # <<>>
                /\ last.accepted = "Hog Rider" =>
                     SubSeq(written, 1, cut) =
                       <<"H", "o", "g", "_", "R", "i", "d", "e", "r", "_">>
                /\ last.accepted = "Giant" =>
                     SubSeq(written, 1, cut) = <<"G", "i", "a", "n", "t", "_">>
                /\ isdigit(SubSeq(written, cut + 1, Len(written)))
  /\ \A j, k \in 1..Len(saved_files) :
       j # k => saved_files[j] # saved_files[k]

C11_Witness ==
  /\ ReviewAnswered
  /\ last.response = " hog rider "
  /\ last.guess = "Giant"
  /\ last.accepted = "Hog Rider"
  /\ last.saved
  /\ slots_identity[last.slot] = "Hog Rider"
  /\ Len(saved_files) = 1

\* C12: a review whose guess is none and whose answer is no input (the end
\* of input included) drops the event: identity, written files, library and
\* GameState are unchanged, and the loop goes on with the next slot.
C12_ReviewAbort ==
  [][ (pc = "review" /\ pc' # "review" /\ last.guess = None
         /\ last'.response \in NoInput) =>
        /\ slots_identity' = slots_identity
        /\ saved_files' = saved_files
        /\ templates_cache' = templates_cache
        /\ UNCHANGED <<slots_info, deck_identificado, cartas_cache>>
        /\ UNCHANGED deckVars
        /\ last'.accepted = None
        /\ ~last'.saved
        /\ last'.registered = None
        /\ pc' = "slots"
        /\ i' = i + 1 ]_vars

C12_Witness ==
  /\ ReviewAnswered
  /\ last.guess = None
  /\ last.response = EOF
  /\ last.accepted = None
  /\ slots_identity[last.slot] = None
  /\ saved_files = <<>>
  /\ pc = "slots"
  /\ i = last.slot + 1

\* C13 as stated: the in-memory library never loses an entry, and as soon as
\* a review confirms a name the library holds one reference more, under
\* that name.
C13_LibraryGrows ==
  [][ /\ Len(templates_cache') >= Len(templates_cache)
      /\ \A k \in 1..Len(templates_cache) :
           /\ templates_cache'[k].nome = templates_cache[k].nome
           /\ Len(templates_cache'[k].templates)
                >= Len(templates_cache[k].templates)
      /\ (pc = "review" /\ pc' # "review" /\ last'.accepted # None) =>
           /\ \E k \in 1..Len(templates_cache') :
                templates_cache'[k].nome = last'.accepted
           /\ Len(References(templates_cache'))
                = Len(References(templates_cache)) + 1 ]_vars

\* C17: the loop stops on capture failures exactly when the count of
\* consecutive failed captures reaches 5; a successful capture resets the
\* count to 0, so the count never exceeds 5 and a stop always follows five
\* failures in a row; and when every capture fails the loop terminates.
C17_CaptureCeiling ==
  /\ [](/\ consecutive_failures \in 0..5
        /\ pc = "aborted" <=> consecutive_failures = 5)
  /\ [][ /\ cycles' = cycles + 1 => consecutive_failures' = 0
         /\ consecutive_failures' # consecutive_failures =>
              \/ consecutive_failures' = 0 /\ cycles' = cycles + 1
              \/ /\ consecutive_failures' = consecutive_failures + 1
                 /\ cycles' = cycles
                 /\ pc = "capture" ]_vars
  /\ ([](cycles = 0) => <>(pc = "aborted"))

\* Stopped by five failures in a row that came after a successful capture.
C17_Witness ==
  /\ pc = "aborted"
  /\ consecutive_failures = 5
  /\ cycles >= 1

\* C18 as stated: the loop never ends through an unhandled error; the only
\* error that ends it is the exhausted capture-failure ceiling.
C18_OnlyCeilingIsFatal ==
  pc # "crashed"

\* C19 as stated: whenever the sampler returns no image for a slot, on the
\* frame of the cycle or on the re-sampled frame, the slot is skipped: no
\* event is emitted for it, its stored state and identity are unchanged,
\* and the loop goes on with the next slot.
C19_OutOfBoundsSkipped ==
  [][ ((i' # i \/ pc' # pc) /\ last'.slot = i
         /\ (last'.kind = "skipped" \/ last'.recapture = "oob")) =>
        /\ last'.event = "none"
        /\ slots_status' = slots_status
        /\ slots_identity' = slots_identity
        /\ pc' = "slots"
        /\ i' = i + 1 ]_vars

\* C20 as stated: slots are visited in increasing index order, and at most
\* one slot enters the identification/review sub-flow in a cycle.
C20_OneSubflowPerCycle ==
  /\ subflows <= 1
  /\ pc = "review" => i = last.slot

\* C20 amended: in every cycle the slots are visited one at a time in
\* increasing index order; every slot showing an EMPTY -> FULL edge enters
\* the identification/review sub-flow in its turn, so several slots may
\* enter it in one cycle, but never at the same time: while a review is
\* open the loop is at the reviewed slot, nothing of another slot changes,
\* and the next slot is looked at only after the review is answered.
C20_SequentialSubflows ==
  /\ [](/\ subflows \in 0..NumSlots
        /\ pc \in {"slots", "review"} => subflows <= i + 1
        /\ pc = "review" => (i = last.slot /\ last.prompted))
  /\ [][ /\ i' # i =>
              \/ i' = i + 1 /\ last'.slot = i /\ pc' = "slots"
              \/ i' = 0 /\ cycles' = cycles + 1
         /\ pc = "review" =>
              /\ pc' = "slots"
              /\ i' = i + 1
              /\ last'.slot = i
              /\ \A s \in Slots \ {i} :
                   /\ slots_status'[s] = slots_status[s]
                   /\ slots_identity'[s] = slots_identity[s] ]_vars

\* Two reviews in one cycle: slot 0, then slot 4.
C20_Witness ==
  /\ subflows = 2
  /\ last.slot = 4
  /\ ReviewAnswered
  /\ Len(saved_files) = 2
  /\ slots_identity[0] # None
  /\ slots_identity[4] # None

\* C23: a slot is UNKNOWN only as long as it has not been classified: every
\* classification leaves it EMPTY or FULL, and a slot that is EMPTY or FULL
\* is never UNKNOWN again in the same or a later cycle.
C23_UnknownOnlyBeforeFirst ==
  /\ [](/\ \A s \in Slots : slots_status[s] \in {"UNKNOWN", "EMPTY", "FULL"}
        /\ last.kind = "step" =>
             /\ last.cur \in {"EMPTY", "FULL"}
             /\ slots_status[last.slot] \in {"EMPTY", "FULL"})
  /\ [][ \A s \in Slots :
           slots_status[s] # "UNKNOWN" => slots_status'[s] # "UNKNOWN" ]_vars

\* Slot 0 classified in two cycles, slot 7 never (it did not fit the frames).
C23_Witness ==
  /\ cycles = 2
  /\ last.kind = "step"
  /\ last.slot = 0
  /\ last.prev = "FULL"
  /\ slots_status[0] = "EMPTY"
  /\ slots_status[7] = "UNKNOWN"

\* C28 as stated: every EMPTY -> FULL event is followed by exactly one
\* identification, made on a picture cut from a frame captured after the
\* settle delay; that picture is also the one shown and written in review.
C28_OnceOnFreshSample ==
  last.kind = "step" =>
    /\ last.event = "new_card" <=> last.guessed
    /\ last.guessed => last.target = FreshSample
    /\ last.prompted => last.shown = FreshSample
    /\ last.saved => last.written = FreshSample

\* C28 amended: an EMPTY -> FULL event is followed by at most one
\* identification, and by none when the capture after the settle delay
\* gives no frame. When it gives a frame, get_best_guess is called once, on
\* what the sampler cuts from that frame (a picture, or nothing when the
\* slot does not fit it), and a review shows and writes that same picture;
\* the picture cut from the frame of the edge is never used. Without an
\* event there is no identification.
C28_AtMostOnceOnFreshSample ==
  last.kind = "step" =>
    /\ last.guessed => last.event = "new_card"
    /\ last.event # "new_card" => last.target = "n/a"
    /\ last.recapture = "none" =>
         /\ ~last.guessed
         /\ last.target = "n/a"
         /\ ~last.prompted
         /\ last.accepted = None
    /\ last.recapture = "ok" =>
         /\ last.guessed
         /\ last.target = FreshSample
    /\ last.recapture = "oob" => last.target = None
    /\ last.prompted => last.shown = FreshSample
    /\ last.saved => last.written = FreshSample
    /\ EdgeSample \notin { last.target, last.shown, last.written }

\* A reviewed event whose picture was written.
C28_Witness ==
  /\ last.kind = "step"
  /\ last.event = "new_card"
  /\ last.recapture = "ok"
  /\ last.target = FreshSample
  /\ last.shown = FreshSample
  /\ last.saved
  /\ last.written = FreshSample
  /\ Len(saved_files) = 1

\* ---------------------------------------------------------------------
\* Claims about the end of the loop (checked under SpecInterrupt)
\* ---------------------------------------------------------------------

\* What the loop has written: slot states, identities, files, GameState.
Written ==
  <<slots_status, slots_identity, saved_files, disk, slots_info,
    deck_identificado, cartas_cache>>

\* C29 as stated: a request to terminate ends the loop only between cycles,
\* after the last slot of a cycle has been dealt with; never while a slot
\* is classified, in the settle delay or in a review.
C29_OnlyBetweenCycles ==
  [][ (pc' \in {"done", "interrupted"} /\ pc' # pc) =>
        /\ pc = "slots"
        /\ i = NumSlots
        /\ last' = last ]_vars

\* C29 amended: the quit key is read once per cycle, after the last slot
\* of a completed cycle, and ends the loop only there, with nothing else
\* changed. A keyboard interrupt ends the loop wherever it arrives: before
\* a capture, between two slots, in the settle delay, or in a review that
\* waits for its answer. What was written before stays, the step under way
\* writes nothing more (the state of its slot is not stored, the review
\* gets no answer), and the loop takes no further step.
C29_QuitKeyOrInterrupt ==
  /\ [](pc = "done" => i = NumSlots)
  /\ [][ (pc' = "done" /\ pc # "done") =>
           /\ pc = "slots"
           /\ i = NumSlots
           /\ last' = last
           /\ Written' = Written ]_vars
  /\ [][ (pc' = "interrupted" /\ pc # "interrupted") =>
           /\ pc \in {"capture", "slots", "review"}
           /\ Written' = Written
           /\ i' = i
           /\ last'.slot = i =>
                (last'.response = None /\ slots_status[i] = last'.prev)
           /\ pc = "review" => last' = last ]_vars
  /\ [][ (pc \in {"done", "interrupted"}) => vars' = vars ]_vars

\* Interrupted in the review of slot 0: the review has no answer and the
\* state of the slot is still EMPTY.
C29_Witness ==
  /\ pc = "interrupted"
  /\ last.slot = 0
  /\ last.prompted
  /\ last.response = None
  /\ last.cur = "FULL"
  /\ slots_status[0] = "EMPTY"
  /\ slots_identity[0] = None
  /\ i = 0

\* C36: when the capture after the settle delay returns no frame the
\* EMPTY->FULL event is lost: nothing is identified, shown, asked, written
\* or registered, the identity of the slot stays, the stored state of the
\* slot becomes FULL, and the failure counter is not touched. A slot whose
\* stored state is FULL never raises the event, so the event is not raised
\* again from that state.
C36_LostEvent ==
  /\ [][ (pc = "slots" /\ last'.slot = i /\ i' = i + 1
            /\ last'.recapture = "none") =>
           /\ last'.event = "new_card"
           /\ last'.prev = "EMPTY"
           /\ last'.cur = "FULL"
           /\ ~last'.guessed
           /\ ~last'.prompted
           /\ last'.accepted = None
           /\ last'.registered = None
           /\ pc' = "slots"
           /\ slots_identity' = slots_identity
           /\ slots_info' = slots_info
           /\ deck_identificado' = deck_identificado
           /\ saved_files' = saved_files
           /\ disk' = disk
           /\ slots_status'[i] = "FULL"
           /\ consecutive_failures' = consecutive_failures ]_vars
  /\ [][ (last' # last /\ last'.kind = "step"
            /\ slots_status[last'.slot] = "FULL") =>
           last'.event # "new_card" ]_vars

\* Second cycle: the card of slot 0 arrived and the capture after the delay
\* failed.
C36_Witness ==
  /\ pc = "slots"
  /\ cycles = 2
  /\ i = 1
  /\ last.slot = 0
  /\ last.event = "new_card"
  /\ last.recapture = "none"
  /\ slots_status[0] = "FULL"
  /\ slots_identity[0] = None
  /\ consecutive_failures = 0

\* C37: the identity of a slot changes only in a step of that slot in
\* which an identification is accepted, by the confidence gate or by the
\* answer to a review, and it becomes the accepted name; a FULL->EMPTY
\* step, a review that ends without a name, a capture after the delay that
\* gives no frame or no picture, and any step of another slot leave it as
\* it is. The name reported with a FULL->EMPTY step is the identity of the
\* slot, None when there is none.
C37_IdentityOnlyOnAccept ==
  /\ [][ \A s \in Slots :
           slots_identity'[s] # slots_identity[s] =>
             /\ last'.slot = s
             /\ last'.event = "new_card"
             /\ last'.recapture = "ok"
             /\ last'.guessed
             /\ last'.prompted => last'.response # None
             /\ is_truthy(last'.accepted)
             /\ slots_identity'[s] = last'.accepted ]_vars
  /\ [][ (/\ last' # last
          /\ \/ last'.event = "played"
             \/ last'.recapture \in {"none", "oob"}
             \/ last'.prompted /\ last'.accepted = None) =>
           slots_identity' = slots_identity ]_vars
  /\ [][ (last' # last /\ last'.event = "played") =>
           /\ last'.reported = slots_identity[last'.slot]
           /\ last'.reported = slots_identity'[last'.slot] ]_vars

\* Slot 0 was identified in the second cycle and its card is played in the
\* third: the name reported is the one accepted then.
C37_Witness ==
  /\ cycles = 3
  /\ last.slot = 0
  /\ last.event = "played"
  /\ last.reported = "Hog Rider"
  /\ slots_identity[0] = "Hog Rider"
  /\ slots_status[0] = "EMPTY"

\* ---------------------------------------------------------------------
\* Claims about get_best_guess (checked under SpecGuess)
\* ---------------------------------------------------------------------

\* The references of the library of the last call, by position, and what the
\* comparison of the candidate with each of them gave.
CallRefs == References(templates_cache)

CallOutcome(k) == call.sc[CallRefs[k][2]]

OkRefs == { k \in 1..Len(CallRefs) : CallOutcome(k)[1] = "ok" }

\* The position in S of the highest score, the first one among equals.
FirstBest(S) ==
  CHOOSE k \in S :
    \A j \in S : \/ CallOutcome(k)[2] > CallOutcome(j)[2]
                 \/ CallOutcome(k)[2] = CallOutcome(j)[2] /\ k <= j

\* The last call scanned a non-empty library for a picture.
Scanned ==
  call.fn = "get_best_guess" /\ call.target # None /\ templates_cache # <<>>

\* C14: on an empty library get_best_guess returns (None, 0.0) whatever the
\* candidate is, a missing picture included, and does not raise.
C14_EmptyLibrary ==
  (call.fn = "get_best_guess" /\ templates_cache = <<>>) =>
    call.result = [match |-> None, score |-> 0, raised |-> FALSE]

C14_Witness ==
  /\ call.fn = "get_best_guess"
  /\ templates_cache = <<>>
  /\ call.target = None
  /\ ~call.result.raised
  /\ call.result.match = None
  /\ call.result.score = 0

\* C15 as stated: the result is the highest-scoring (name, score) over all
\* references compared, the first one met among equals.
C15_HighestScoring ==
  (Scanned /\ OkRefs # {}) =>
    /\ call.result.match = CallRefs[FirstBest(OkRefs)][1]
    /\ call.result.score = CallOutcome(FirstBest(OkRefs))[2]

\* C15 amended: the result is the highest-scoring (name, score) over the
\* references that score strictly more than 0, the first one met in
\* iteration order among equals; when no reference scores more than 0 the
\* result is (None, 0.0).
C15_HighestPositiveScore ==
  Scanned =>
    LET positive == { k \in OkRefs : CallOutcome(k)[2] > 0 }
    IN  /\ ~call.result.raised
        /\ positive = {} =>
             call.result.match = None /\ call.result.score = 0
        /\ positive # {} =>
             /\ call.result.match = CallRefs[FirstBest(positive)][1]
             /\ call.result.score = CallOutcome(FirstBest(positive))[2]

\* References 1, 3, 2 in iteration order: the second image of "Hog Rider"
\* and the image of "Giant" both score 0.91.
C15_Witness ==
  /\ Scanned
  /\ Len(CallRefs) = 3
  /\ call.sc[1] = <<"ok", 74>>
  /\ call.sc[3] = <<"ok", 91>>
  /\ call.sc[2] = <<"ok", 91>>
  /\ call.result.match = "Hog Rider"
  /\ call.result.score = 91

C39_NoneIffZero ==
  (call.fn = "get_best_guess" /\ ~call.result.raised) =>
    /\ call.result.match = None <=> call.result.score = 0
    /\ call.result.score >= 0
    /\ (/\ Scanned
        /\ \A k \in 1..Len(CallRefs) :
             CallOutcome(k)[1] = "fail" \/ CallOutcome(k)[2] <= 0) =>
         call.result.match = None /\ call.result.score = 0
    /\ (call.result.score >= CONFIRMATION_THRESHOLD /\ is_truthy(call.result.match))
         <=> call.result.score >= CONFIRMATION_THRESHOLD

\* Three references: one scores less than 0, one fails, one scores 0.
C39_Witness ==
  /\ Scanned
  /\ Len(CallRefs) = 3
  /\ call.sc[1] = <<"ok", -20>>
  /\ call.sc[3] = <<"fail", 0>>
  /\ call.sc[2] = <<"ok", 0>>
  /\ ~call.result.raised
  /\ call.result.match = None
  /\ call.result.score = 0

\* ---------------------------------------------------------------------
\* Claims about GameState (checked under SpecGameState)
\* ---------------------------------------------------------------------

\* The cards of the API that have the name nome, case ignored.
Named(nome) ==
  IF nome = None THEN {}
  ELSE { c \in ApiCards : Lower(c) = Lower(nome) }

\* C38: for every slot the card object and the elixir cost stored belong to
\* the card whose name is stored (the card object is unset, or its name is
\* the stored name, case ignored), and what a play of the slot subtracts is
\* the cost of the card of the stored name.
C38_CardBelongsToName ==
  /\ \A s \in Slots :
       slots_info[s].carta_obj # None =>
         /\ slots_info[s].carta_obj \in Named(slots_info[s].nome_carta)
         /\ slots_info[s].elixir = ApiElixir(slots_info[s].carta_obj)
  /\ (call.fn = "registrar_carta_jogada" /\ call.custo # 0) =>
       \E c \in Named(slots_info[call.slot_id].nome_carta) :
         call.custo = ApiElixir(c)

\* ---------------------------------------------------------------------
\* Claims about the slot calibration (checked under SpecCalibrate)
\* ---------------------------------------------------------------------

\* The step handles a click, or the key k.
ClickStep ==
  calib_event'.kind = "mouse" /\ calib_event'.event = "EVENT_LBUTTONDOWN"

KeyStep(k) ==
  calib_event'.kind = "key" /\ calib_event'.key = k

\* C31: a click creates a pending slot, with the number of confirmed slots
\* as its id, only when no slot is pending and fewer than 8 are confirmed,
\* and changes nothing otherwise; nothing else creates a pending slot;
\* ENTER moves the pending slot to the end of the confirmed list and
\* BACKSPACE discards it; so the confirmed list never has more than 8
\* entries and its k-th entry has id k, counted from 0.
C31_CalibrationProtocol ==
  /\ [](/\ Len(slots) <= 8
        /\ \A k \in 1..Len(slots) : slots[k].id = k - 1
        /\ pending_slot # NoPendingSlot => pending_slot.id = Len(slots))
  /\ [][ ClickStep =>
           /\ UNCHANGED <<slots, mouse_pos, calib_pc, slots_config_txt>>
           /\ IF pending_slot = NoPendingSlot /\ Len(slots) < 8
                THEN pending_slot' = [id   |-> Len(slots),
                                      left |-> 2 * calib_event'.x,
                                      top  |-> 2 * calib_event'.y]
                ELSE pending_slot' = pending_slot ]_vars
  /\ [][ (pending_slot' # pending_slot /\ pending_slot' # NoPendingSlot) =>
           ClickStep ]_vars
  /\ [][ KeyStep(KEY_ENTER) =>
           IF pending_slot # NoPendingSlot
             THEN /\ slots' = Append(slots, pending_slot)
                  /\ pending_slot' = NoPendingSlot
             ELSE UNCHANGED <<slots, pending_slot>> ]_vars
  /\ [][ KeyStep(KEY_BACKSPACE) =>
           /\ slots' = slots
           /\ pending_slot' = NoPendingSlot ]_vars
  /\ [][ slots' # slots =>
           KeyStep(KEY_ENTER) /\ pending_slot # NoPendingSlot ]_vars

\* Eight slots are confirmed, at two different places, and a further click
\* was refused.
C31_Witness ==
  /\ Len(slots) = 8
  /\ slots[8].id = 7
  /\ slots[1].left # slots[2].left
  /\ calib_event.kind = "mouse"
  /\ calib_event.event = "EVENT_LBUTTONDOWN"
  /\ pending_slot = NoPendingSlot
  /\ calib_pc = "running"

\* C32: 's' writes the file only when exactly 8 slots are confirmed and none
\* is pending; in any other state it writes nothing and leaves the
\* calibrator running as it was; a save that succeeds writes the 8
\* confirmed slots and ends the loop, after which nothing changes.
C32_SaveOnlyWhenComplete ==
  /\ [][ KeyStep(ord_s) =>
           IF Len(slots) = 8 /\ pending_slot = NoPendingSlot
             THEN /\ UNCHANGED <<slots, pending_slot>>
                  /\ calib_pc' \in {"saved", "crashed"}
                  /\ calib_pc' = "saved" =>
                       slots_config_txt' = [exists |-> TRUE, lines |-> slots]
             ELSE UNCHANGED <<slots, pending_slot, mouse_pos, calib_pc,
                              slots_config_txt>> ]_vars
  /\ [][ slots_config_txt' # slots_config_txt =>
           /\ KeyStep(ord_s)
           /\ Len(slots) = 8
           /\ pending_slot = NoPendingSlot ]_vars
  /\ [](calib_pc = "saved" =>
          /\ slots_config_txt = [exists |-> TRUE, lines |-> slots]
          /\ Len(slots) = 8
          /\ pending_slot = NoPendingSlot)
  /\ [][ calib_pc = "saved" => UNCHANGED calibVars ]_vars

\* The eight confirmed slots were saved.
C32_Witness ==
  /\ calib_pc = "saved"
  /\ calib_event.key = ord_s
  /\ Len(slots_config_txt.lines) = 8
  /\ slots_config_txt.lines[8].id = 7

\* ---------------------------------------------------------------------
\* Claims about the template directories (checked under SpecLoad)
\* ---------------------------------------------------------------------

\* The files the last start found in cards-templates and in
\* cards-templates-user.
LoadedBase == call.dirs.base.files

LoadedUser == call.dirs.user.files

\* The library of the last start holds picture img under name nome.
FiledUnder(img, nome) ==
  \E e \in 1..Len(templates_cache) :
    /\ templates_cache[e].nome = nome
    /\ \E t \in 1..Len(templates_cache[e].templates) :
         templates_cache[e].templates[t] = img

\* C21 as stated: a picture a review wrote under the confirmed name N is in
\* the file <N with blanks replaced>_<timestamp>, and the next start of the
\* program files that picture under the same name N, whether N is one word
\* or several.
C21_NamingRoundTrip ==
  \A k \in 1..Len(LoadedUser) :
    LET f == LoadedUser[k]
        N == Chars(f.nome)
    IN  (f.nome # None /\ f.ok) =>
          /\ Len(f.stem) > Len(N) + 1
          /\ \A j \in 1..Len(N) :
               f.stem[j] = (IF N[j] = " " THEN "_" ELSE N[j])
          /\ f.stem[Len(N) + 1] = "_"
          /\ isdigit(SubSeq(f.stem, Len(N) + 2, Len(f.stem)))
          /\ FiledUnder(f.img, f.nome)

\* cards-templates held, at the last start, the base art and the evolution
\* art of Giant (pictures 2 and 3), both decodable.
BothArts ==
  /\ \E k \in 1..Len(LoadedBase) :
       LoadedBase[k].stem = stem_giant_medium /\ LoadedBase[k].ok
  /\ \E k \in 1..Len(LoadedBase) :
       LoadedBase[k].stem = stem_giant_evolutionMedium /\ LoadedBase[k].ok

\* The pictures in the library are the downloaded ones only.
OnlyDownloaded ==
  \A k \in 1..Len(References(templates_cache)) :
    References(templates_cache)[k][2] \in GuessTemplateIds

\* C22 as stated: with the base art and the evolution art of a card in the
\* template directory, the loader files them under two names, "<Name>" and
\* "<Name> Evo".
C22_EvolutionSuffix ==
  BothArts =>
    \E base_name, evo_name \in NamesIn(templates_cache) :
      /\ FiledUnder(2, base_name)
      /\ FiledUnder(3, evo_name)
      /\ Chars(evo_name) = Chars(base_name) \o <<" ", "E", "v", "o">>

\* C22 amended: with the base art and the evolution art of a card in the
\* template directory, the loader files both pictures under the one name
\* "<Name>", as two references of one entry in directory order; no other
\* name holds the evolution art, and get_best_guess answers "<Name>" when
\* the evolution art is the best match.
C22_EvolutionSameName ==
  BothArts =>
    /\ FiledUnder(2, "Giant")
    /\ FiledUnder(3, "Giant")
    /\ \A nome \in NamesIn(templates_cache) :
         FiledUnder(3, nome) => nome = "Giant"
    /\ Cardinality({ e \in 1..Len(templates_cache) :
                       templates_cache[e].nome = "Giant" }) = 1
    /\ \A j, k \in 1..Len(LoadedBase) :
         (/\ LoadedBase[j].stem = stem_giant_medium
          /\ LoadedBase[k].stem = stem_giant_evolutionMedium
          /\ OnlyDownloaded) =>
           \E e \in 1..Len(templates_cache) :
             templates_cache[e].templates =
               (IF j < k THEN <<2, 3>> ELSE <<3, 2>>)
    /\ OnlyDownloaded =>
         \A sc \in GuessScoreVectors :
           (/\ sc[3] = <<"ok", 91>>
            /\ sc[1][2] < 91
            /\ sc[2][2] < 91) =>
             get_best_guess(templates_cache, "image", sc) = Returned("Giant", 91)

C22_Witness ==
  /\ BothArts
  /\ Len(LoadedBase) = 3
  /\ LoadedBase[1].stem = stem_giant_evolutionMedium
  /\ LoadedBase[3].stem = stem_giant_medium
  /\ LoadedBase[2].ok
  /\ templates_cache =
       << [nome |-> "Giant", templates |-> <<3, 2>>],
          [nome |-> "Hog Rider", templates |-> <<1>>] >>

\* ---------------------------------------------------------------------
\* Claims about the classification (checked under SpecClassify)
\* ---------------------------------------------------------------------

\* The squared distances of the picture of the last call to the palette.
PaletteDist2 == { Dist2(call.img.avg, c) : c \in red_colors_bgr }

\* C27: the thresholds are strict. A picture is background-red as soon as
\* one palette colour is at a distance under 25, and is not when every
\* palette colour is at 25 or more; a picture that is not background-red
\* is FULL when its mean saturation is over 60 and EMPTY at 60 or less.
C27_StrictThresholds ==
  call.fn = "classify" =>
    /\ (\E d2 \in PaletteDist2 : d2 <= 24 * 24) => call.is_red_bg
    /\ (\A d2 \in PaletteDist2 : d2 >= 25 * 25) => ~call.is_red_bg
    /\ (~call.is_red_bg /\ call.img.sat >= 61) => call.current_state = "FULL"
    /\ (~call.is_red_bg /\ call.img.sat <= 60) => call.current_state = "EMPTY"
    /\ call.is_red_bg => call.current_state = "EMPTY"

\* One palette colour exactly at the tolerance, the others further away.
C27_Witness ==
  /\ call.fn = "classify"
  /\ 25 * 25 \in PaletteDist2
  /\ \A d2 \in PaletteDist2 : d2 >= 25 * 25
  /\ ~call.is_red_bg
  /\ call.img.sat = 61
  /\ call.current_state = "FULL"

\* The files the last start could read: those of the directories that
\* exist, cards-templates first.
LoadedFiles ==
  (IF call.dirs.base.exists THEN LoadedBase ELSE <<>>)
    \o (IF call.dirs.user.exists THEN LoadedUser ELSE <<>>)

\* C30: loading leaves a well-formed library. A file that does not decode
\* adds nothing and does not stop the loading of the files after it, in its
\* directory or in the next one; a missing directory is passed over; every
\* decodable file is in the library exactly once, and every name of the
\* library has at least one picture.
C30_LoadWellFormed ==
  LET refs == References(templates_cache)
  IN  /\ \A e \in 1..Len(templates_cache) :
           templates_cache[e].templates # <<>>
      /\ \A e, g \in 1..Len(templates_cache) :
           e # g => templates_cache[e].nome # templates_cache[g].nome
      /\ \A k \in 1..Len(LoadedFiles) :
           LoadedFiles[k].ok <=>
             (\E j \in 1..Len(refs) : refs[j][2] = LoadedFiles[k].img)
      /\ Len(refs) =
           Cardinality({ k \in 1..Len(LoadedFiles) : LoadedFiles[k].ok })
      /\ \A k \in 1..Len(LoadedFiles) :
           LoadedFiles[k].ok =>
             FiledUnder(LoadedFiles[k].img,
                        Str(nome_carta_of(LoadedFiles[k].stem)))

\* The first file of cards-templates does not decode; the two after it and
\* a learned picture are loaded.
C30_Witness ==
  /\ Len(LoadedBase) = 3
  /\ ~LoadedBase[1].ok
  /\ LoadedBase[2].ok
  /\ LoadedBase[3].ok
  /\ Len(LoadedUser) = 1
  /\ Len(References(templates_cache)) = 3
  /\ FiledUnder(LoadedUser[1].img, "Giant")

====
